---- MODULE Spec2Model ----
(***************************************************************************)
(* Model of the slash-engine-go physics engine (package engine) and of the *)
(* C binding that wraps it.                                                 *)
(*                                                                         *)
(* Numbers.  The engine works on float64.  The model uses fixed point      *)
(* numbers: the integer v stands for v / Unit, and the negligible          *)
(* threshold 0.01 is negligibleFloat.  Most inputs the specifications     *)
(* draw are whole multiples of Unit, for which Mul is exact; a product     *)
(* that is not exact is rounded toward zero.                               *)
(* The clock counts whole seconds; time.Now() is the variable now.         *)
(***************************************************************************)
EXTENDS Integers, Sequences, FiniteSets, TLC

\* ------------------------------------------------------------------ bounds
MaxClock == 2      \* the clock runs from 0 to MaxClock seconds
MaxRuns == 2       \* Run calls that get past the running/world check
MaxCalls == 3      \* calls that change the engine, under Spec
MaxRunCalls == 3   \* calls that change the engine, under SpecRun
MaxLifeCalls == 4  \* calls that change the engine, under SpecLife
MaxPhysCalls == 3  \* SetWorld calls under SpecPhys
MaxChainCalls == 3 \* SetWorld and AddImpulse calls under SpecChain
MaxDecayPasses == 56  \* passes of one second that wear down an impulse of SpecDecay
MaxDecayCalls == 58   \* SetWorld and AddImpulse calls under SpecDecay
MaxCodecCalls == 3    \* calls that change the engine, under SpecCodec
MaxTableCalls == 4    \* calls that change the engine, under SpecTable
MaxHeapCalls == 2     \* SetWorld calls under SpecHeap
MaxConversions == 2   \* GetWorldPtr and GetObjectPtr calls under SpecHeap
MaxEarlyCalls == 3    \* calls that change the engine, under SpecEarly

\* --------------------------------------------------------------- constants
negligibleFloat == 2                  \* 0.01 in units of 1/200
Unit == 100 * negligibleFloat         \* the fixed point representation of 1.0

Abs(x) == IF x < 0 THEN -x ELSE x
\* a product of two fixed-point numbers, rounded toward zero
Mul(a, b) == IF a * b < 0 THEN -((-(a * b)) \div Unit) ELSE (a * b) \div Unit

RECURSIVE PowN(_, _)
PowN(d, n) == IF n <= 0 THEN Unit ELSE Mul(d, PowN(d, n - 1))
\* math.Pow(damping, elapsed) for an elapsed of whole seconds
Pow(d, e) == PowN(d, e \div Unit)

\* -------------------------------------------------------------- data model
Vec(x, y) == [X |-> x, Y |-> y]

MovingTypes == {"Projectile", "Effect", "Creature", "Item"}
ObjectTypes == {"Other", "Creature", "Projectile", "Effect", "Terrain", "Structure", "Item"}

\* engine.world == nil
NoWorld == [nil |-> TRUE]
NewWorld(gravity, boundary) ==
    [nil |-> FALSE, Gravity |-> gravity, Boundary |-> boundary, Objects |-> <<>>]

\* a nil *Object stored in world.Objects
NilObject == [nil |-> TRUE]

\* ----------------------------------------------------------------- physics
\* a clamp without the upper limit
clampBelow(val, minValue, maxValue) ==
    IF val < minValue THEN minValue ELSE val

clamp(val, minValue, maxValue) ==
    IF val < minValue THEN minValue
    ELSE IF val > maxValue THEN maxValue
    ELSE val

\* the bottom of the object: Position is its center
positionBottomY(obj) == obj.Position.Y - (obj.Size.Y \div 2)
onTheFloor(obj) == Abs(positionBottomY(obj)) < negligibleFloat
movingDownward(obj) == obj.Velocity.Y < 0

\* a gravity that ignores the object's gravity factor
_applyGravityAnyFactor(obj, gravity) ==
    [obj EXCEPT !.Velocity.Y = @ + Mul(-gravity, Unit)]

_applyGravity(obj, gravity) ==
    IF obj.GravityFactor # 0
    THEN [obj EXCEPT !.Velocity.Y = @ + Mul(-gravity, obj.GravityFactor)]
    ELSE obj

\* the decayed direction of one impulse node
\* a decay that forgets the elapsed time and applies the damping once per pass
DecayDirectionPerPass(imp, elapsed) ==
    IF imp.Damping = Unit THEN imp.Direction
    ELSE IF imp.Damping <= negligibleFloat THEN Vec(0, 0)
    ELSE Vec(Mul(imp.Direction.X, imp.Damping), Mul(imp.Direction.Y, imp.Damping))

\* a decay that leaves every direction as it is
DecayDirectionNever(imp, elapsed) ==
    IF imp.Damping <= negligibleFloat THEN Vec(0, 0) ELSE imp.Direction

DecayDirection(imp, elapsed) ==
    IF imp.Damping = Unit THEN imp.Direction
    ELSE IF imp.Damping <= negligibleFloat THEN Vec(0, 0)
    ELSE Vec(Mul(imp.Direction.X, Pow(imp.Damping, elapsed)),
             Mul(imp.Direction.Y, Pow(imp.Damping, elapsed)))

Negligible(dir) == Abs(dir.X) < negligibleFloat /\ Abs(dir.Y) < negligibleFloat

\* the chain as the code holds it: node i of the sequence at address i, its
\* Next the address of the following node, 0 for nil
Linked(chain) ==
    [i \in 1..Len(chain) |->
        [Direction |-> chain[i].Direction, Damping |-> chain[i].Damping,
         Next |-> IF i = Len(chain) THEN 0 ELSE i + 1]]

\* the nodes reached from address p, head first
RECURSIVE Chain(_, _)
Chain(node, p) ==
    IF p = 0 THEN <<>>
    ELSE <<[Direction |-> node[p].Direction, Damping |-> node[p].Damping]>>
         \o Chain(node, node[p].Next)

\* a removal that only knows how to drop the head
UnlinkHeadOnly(s, prev, current) ==
    IF prev = 0
    THEN [s EXCEPT !.Impulses = s.node[current].Next]
    ELSE s

\* the removal of the node at current: the head moves on, or prev skips it
Unlink(s, prev, current) ==
    IF prev = 0
    THEN [s EXCEPT !.Impulses = s.node[current].Next]
    ELSE [s EXCEPT !.node[prev].Next = s.node[current].Next]

\* a walk that damps a node before it adds the node to the velocity
RECURSIVE ImpulseWalkDecayFirst(_, _, _, _)
ImpulseWalkDecayFirst(s, prev, current, elapsed) ==
    IF current = 0 THEN s
    ELSE LET cur == s.node[current]
             dir == DecayDirection(cur, elapsed)
             s1 == [s EXCEPT !.Velocity = Vec(@.X + Mul(dir.X, elapsed),
                                              @.Y + Mul(dir.Y, elapsed)),
                             !.node[current].Direction = dir]
         IN IF Negligible(dir)
            THEN ImpulseWalkDecayFirst(Unlink(s1, prev, current), prev, cur.Next, elapsed)
            ELSE ImpulseWalkDecayFirst(s1, current, cur.Next, elapsed)

\* the loop of _applyImpulses with its two cursors; s holds the object's
\* velocity, its head pointer and the nodes
RECURSIVE ImpulseWalk(_, _, _, _)
ImpulseWalk(s, prev, current, elapsed) ==
    IF current = 0 THEN s
    ELSE LET cur == s.node[current]
             dir == DecayDirection(cur, elapsed)
             s1 == [s EXCEPT !.Velocity = Vec(@.X + Mul(cur.Direction.X, elapsed),
                                              @.Y + Mul(cur.Direction.Y, elapsed)),
                             !.node[current].Direction = dir]
         IN IF Negligible(dir)
            THEN ImpulseWalk(Unlink(s1, prev, current), prev, cur.Next, elapsed)
            ELSE ImpulseWalk(s1, current, cur.Next, elapsed)

\* _applyImpulses that builds the chain anew by linking each surviving node
\* in front of the nodes kept so far
_applyImpulsesRelinking(obj, elapsed) ==
    LET r == ImpulseWalk([Velocity |-> obj.Velocity,
                          Impulses |-> IF obj.Impulses = <<>> THEN 0 ELSE 1,
                          node |-> Linked(obj.Impulses)], 0,
                         IF obj.Impulses = <<>> THEN 0 ELSE 1, elapsed)
        kept == Chain(r.node, r.Impulses)
    IN [obj EXCEPT !.Velocity = r.Velocity,
                   !.Impulses = [i \in 1..Len(kept) |-> kept[Len(kept) + 1 - i]]]

_applyImpulses(obj, elapsed) ==
    LET r == ImpulseWalk([Velocity |-> obj.Velocity,
                          Impulses |-> IF obj.Impulses = <<>> THEN 0 ELSE 1,
                          node |-> Linked(obj.Impulses)], 0,
                         IF obj.Impulses = <<>> THEN 0 ELSE 1, elapsed)
    IN [obj EXCEPT !.Velocity = r.Velocity, !.Impulses = Chain(r.node, r.Impulses)]

_extrapolatePosition(obj, elapsed) ==
    [obj EXCEPT !.Position = Vec(obj.Position.X + Mul(obj.Velocity.X, elapsed),
                                 obj.Position.Y + Mul(obj.Velocity.Y, elapsed))]

FloorStop(obj) ==
    IF onTheFloor(obj) /\ movingDownward(obj)
    THEN [obj EXCEPT !.Velocity.Y = 0, !.Position.Y = 0]
    ELSE obj

ClampToWorld(obj, w) ==
    [obj EXCEPT !.Position =
        Vec(clamp(obj.Position.X, obj.Size.X \div 2, w.Boundary.X - (obj.Size.X \div 2)),
            clamp(obj.Position.Y, 0, w.Boundary.Y - obj.Size.Y))]

_updateProjectile(obj, w, elapsed) ==
    FloorStop(_extrapolatePosition(_applyImpulses(_applyGravity(obj, w.Gravity), elapsed), elapsed))

\* an Effect that is clamped to the World like a Creature
_updateEffectClamped(obj, w, elapsed) ==
    ClampToWorld(
        _extrapolatePosition(_applyImpulses(_applyGravity(obj, w.Gravity), elapsed), elapsed), w)

_updateEffect(obj, w, elapsed) ==
    _extrapolatePosition(_applyImpulses(_applyGravity(obj, w.Gravity), elapsed), elapsed)

_updateCreature(obj, w, elapsed) ==
    FloorStop(ClampToWorld(
        _extrapolatePosition(_applyImpulses(_applyGravity(obj, w.Gravity), elapsed), elapsed), w))

_updateItem(obj, w, elapsed) ==
    FloorStop(ClampToWorld(
        _extrapolatePosition(_applyImpulses(_applyGravity(obj, w.Gravity), elapsed), elapsed), w))

_updateStructure(obj, w, elapsed) == obj
\* a Terrain that falls and takes impulses like an Effect
_updateTerrainMoving(obj, w, elapsed) ==
    _extrapolatePosition(_applyImpulses(_applyGravity(obj, w.Gravity), elapsed), elapsed)

_updateTerrain(obj, w, elapsed) == obj
_updateOther(obj, w, elapsed) == obj

\* an update with a collision response: an object that shares its position
\* with another object of the World is stopped
UpdateObjectColliding(obj, w, elapsed) ==
    [(CASE obj.Type = "Projectile" -> _updateProjectile(obj, w, elapsed)
        [] obj.Type = "Effect" -> _updateEffect(obj, w, elapsed)
        [] obj.Type = "Creature" -> _updateCreature(obj, w, elapsed)
        [] obj.Type = "Item" -> _updateItem(obj, w, elapsed)
        [] OTHER -> obj)
     EXCEPT !.Velocity =
        IF \E id \in DOMAIN w.Objects \ {obj.ID} : w.Objects[id].Position = obj.Position
        THEN Vec(0, 0) ELSE @]

UpdateObject(obj, w, elapsed) ==
    CASE obj.Type = "Projectile" -> _updateProjectile(obj, w, elapsed)
      [] obj.Type = "Effect" -> _updateEffect(obj, w, elapsed)
      [] obj.Type = "Creature" -> _updateCreature(obj, w, elapsed)
      [] obj.Type = "Item" -> _updateItem(obj, w, elapsed)
      [] obj.Type = "Structure" -> _updateStructure(obj, w, elapsed)
      [] obj.Type = "Terrain" -> _updateTerrain(obj, w, elapsed)
      [] OTHER -> _updateOther(obj, w, elapsed)

\* for _, obj := range world.Objects: the orders in which the runtime may
\* visit the keys of the map
VisitOrders(w) ==
    {order \in [1..Cardinality(DOMAIN w.Objects) -> DOMAIN w.Objects] :
        \A i, j \in DOMAIN order : i # j => order[i] # order[j]}

\* the body of the loop for each id of the order: the object is updated in
\* place, and the objects visited later see the World as it is by then
RECURSIVE updateInOrder(_, _, _)
updateInOrder(w, elapsed, order) ==
    IF order = <<>> THEN w
    ELSE updateInOrder([w EXCEPT !.Objects[Head(order)] =
                            UpdateObject(w.Objects[Head(order)], w, elapsed)],
                       elapsed, Tail(order))

\* an update that does not return when no time has passed
updateAnyElapsed(w, elapsed) ==
    IF w.nil THEN {w}
    ELSE {updateInOrder(w, elapsed, order) : order \in VisitOrders(w)}

\* Engine.update: the worlds one integration pass may leave, one for each
\* order of the range over the map
update(w, elapsed) ==
    IF elapsed <= 0 THEN {w}
    ELSE IF w.nil THEN {w}
    ELSE {updateInOrder(w, elapsed, order) : order \in VisitOrders(w)}

\* the objects of w that update can process
LiveIds(w) == {id \in DOMAIN w.Objects : w.Objects[id] # NilObject}
\* obj.Type on a nil *Object panics: the pass aborts inside the range loop
PassPanics(w, elapsed) ==
    /\ elapsed > 0
    /\ ~w.nil
    /\ LiveIds(w) # DOMAIN w.Objects
\* the world when the pass has aborted: the range over the map had reached
\* the objects of S, in the order the runtime chose, before the nil entry
UpdatedSome(w, elapsed, S) ==
    [w EXCEPT !.Objects = [id \in DOMAIN w.Objects |->
                              IF id \in S THEN UpdateObject(w.Objects[id], w, elapsed)
                              ELSE w.Objects[id]]]

\* ------------------------------------------------------------ engine state
Writers == {1}                        \* the foreground thread that calls Run, Stop and the writers
Readers == {2}                        \* the foreground thread that calls the getters
Callers == Writers \cup Readers
Gens == 1 .. MaxRuns                  \* the k-th Run that made channels
WorkerId(g) == 10 + g                 \* the lock owner id of worker g

VARIABLES
    world,          \* Engine.world (NoWorld for nil)
    mutex,          \* Engine.mutex: [writer, readers]
    running,        \* Engine.running
    stopChannel,    \* Engine.stopChannel: the generation of the channel, 0 for nil
    updateSignal,   \* Engine.updateSignal: the generation of the channel, 0 for nil
    updateTicker,   \* Engine.updateTicker: the generation of the ticker, 0 for nil
    lastUpdate,     \* Engine.lastUpdate, 0 for the zero time
    made,           \* how many Run calls have made channels
    closed,         \* closed[g]: stop channel g is closed
    sigLen,         \* sigLen[g]: markers buffered in update-signal channel g
    tickerPeriod,   \* tickerPeriod[g]: period of ticker g in ms, 0 if never created
    tickerStopped,  \* tickerStopped[g]: Stop was called on ticker g
    tickerC,        \* tickerC[g]: ticks buffered in ticker g's channel
    now,            \* time.Now(), in seconds
    pc,             \* pc[c]: what caller c is executing
    arg,            \* arg[c]: tickMS of the Run call caller c is in
    held,           \* held[c]: what caller c reads outside the lock (0 nothing, -1 the world, id an object)
    timer,          \* timer[g]: the timer goroutine started by Run g
    worker,         \* worker[g]: the worker goroutine started by Run g
    budget,         \* calls that change the engine the writing thread may still start
    runClock,       \* the clock value the last Run recorded (0 once SetWorld was called)
    sumElapsed,     \* the sum of the elapsed values of the passes since the last Run (0 once SetWorld was called)
    sinceSetWorld,  \* a SetWorld happened since the last Run
    codec,          \* the last use of the codec: what was encoded or decoded, and the result
    heap            \* the C heap: the blocks malloc has returned, and what was passed to free

engineVars == <<world, running, stopChannel, updateSignal, updateTicker, lastUpdate>>
chanVars == <<made, closed, sigLen, tickerPeriod, tickerStopped, tickerC>>
taskVars == <<timer, worker>>
ghostVars == <<runClock, sumElapsed, sinceSetWorld>>
vars == <<engineVars, mutex, chanVars, now, pc, arg, held, taskVars, budget, ghostVars, codec,
          heap>>

\* ------------------------------------------------------------------ inputs
Ids == {1, 2}
Gravities == {2 * Unit}
Boundaries == {Vec(12 * Unit, 12 * Unit)}
TickValues == {-Unit, 0, Unit \div 2, Unit}
RttValues == {-Unit, 0, Unit}
Directions == {Vec(Unit, 0)}
Dampings == {Unit}
Vectors == {Vec(Unit, Unit)}

Obj(id, type) ==
    [ID |-> id, Type |-> type, Client |-> FALSE, Size |-> Vec(2 * Unit, 2 * Unit),
     Velocity |-> Vec(0, 0), Position |-> Vec(5 * Unit, 5 * Unit), Anchor |-> Vec(0, 0),
     GravityFactor |-> Unit, Impulses |-> <<>>]
Objs == {Obj(1, "Creature")}
ObjLists == {<<Obj(1, "Creature"), Obj(2, "Effect")>>}
IdLists == {<<1, 2>>}
Worlds == {NoWorld,
           [NewWorld(Unit, Vec(10 * Unit, 10 * Unit)) EXCEPT
               !.Objects = (1 :> [Obj(1, "Creature") EXCEPT !.Position = Vec(5 * Unit, Unit),
                                                         !.Velocity = Vec(0, -Unit),
                                                         !.GravityFactor = 0])]}

\* -------------------------------------------------------------------- lock
\* a Lock that does not wait for the readers
CanLockDespiteReaders == mutex.writer = 0
\* sync.RWMutex: Lock waits for the writer and every reader to leave
CanLock == mutex.writer = 0 /\ mutex.readers = {}
\* sync.RWMutex: RLock waits for the writer to leave
CanRLock == mutex.writer = 0
Unlocked == [mutex EXCEPT !.writer = 0]
RUnlocked(c) == [mutex EXCEPT !.readers = @ \ {c}]

WriteOps == {"Stop", "Run", "CreateWorld", "SetWorld", "UpsertObject", "UpsertObjects",
             "AddImpulse", "SetVelocity", "SetPosition", "SetAnchor", "RemoveObject",
             "RemoveObjects"}
ReadOps == {"GetWorld", "GetObject", "GetWorldPtr", "GetWorldBytes", "GetObjectPtr"}

getWorld == world
getObject(id) ==
    IF world.nil THEN <<>>
    ELSE IF id \in DOMAIN world.Objects THEN <<world.Objects[id]>> ELSE <<>>

\* the zero Engine, before any goroutine exists
InitEngine ==
    /\ world = NoWorld
    /\ mutex = [writer |-> 0, readers |-> {}]
    /\ running = FALSE
    /\ stopChannel = 0
    /\ updateSignal = 0
    /\ updateTicker = 0
    /\ lastUpdate = 0
    /\ made = 0
    /\ closed = [g \in Gens |-> FALSE]
    /\ sigLen = [g \in Gens |-> 0]
    /\ tickerPeriod = [g \in Gens |-> 0]
    /\ tickerStopped = [g \in Gens |-> FALSE]
    /\ tickerC = [g \in Gens |-> 0]
    /\ now = 1
    /\ pc = [c \in Callers |-> "idle"]
    /\ arg = [c \in Callers |-> 0]
    /\ held = [c \in Callers |-> 0]
    /\ timer = [g \in Gens |-> [pc |-> "none", dt |-> 0, tk |-> 0, st |-> 0]]
    /\ worker = [g \in Gens |-> [pc |-> "none", us |-> 0, st |-> 0]]
    /\ runClock = 0
    /\ sumElapsed = 0
    /\ sinceSetWorld = FALSE
    /\ codec = [op |-> "none"]
    /\ heap = [op |-> "none", next |-> 16, live |-> {}, at |-> <<>>, ret |-> 0, ptr |-> 0,
               kind |-> "none", built |-> {}, owed |-> {}, freed |-> <<>>, undefined |-> FALSE,
               detects |-> FALSE, aborted |-> FALSE, made |-> 0]

Init == InitEngine /\ budget = MaxCalls

\* ---------------------------------------------------------- API: entering
\* The budget bounds the calls that change the engine: a Stop or a Run that
\* returns at its first check costs nothing.

\* a Stop that does not look at the running flag
StopIsNoOpNever == FALSE
\* if !engine.running { return }
StopIsNoOp == ~running

\* a Run that does not look at the running flag
RunIsNoOpWithoutWorld == world.nil
\* if engine.running || engine.world == nil { Unlock; return }
RunIsNoOp == running \/ world.nil

\* a call whose first statement is engine.mutex.Lock()
WriteCall(c, op) ==
    /\ pc[c] = "idle"
    /\ budget > 0
    /\ CanLock
    /\ mutex' = [mutex EXCEPT !.writer = c]
    /\ pc' = [pc EXCEPT ![c] = op]
    /\ budget' = budget - 1
    /\ UNCHANGED <<engineVars, chanVars, now, arg, held, taskVars, ghostVars>>
    /\ UNCHANGED <<codec, heap>>

\* a call whose first statement is engine.mutex.RLock()
ReadCall(c, op) ==
    /\ pc[c] = "idle"
    /\ CanRLock
    /\ mutex' = [mutex EXCEPT !.readers = @ \cup {c}]
    /\ pc' = [pc EXCEPT ![c] = op]
    /\ UNCHANGED <<engineVars, chanVars, now, arg, held, taskVars, budget, ghostVars>>
    /\ UNCHANGED <<codec, heap>>

\* Stop() up to engine.mutex.Lock()
StopCall(c) ==
    /\ pc[c] = "idle"
    /\ StopIsNoOp \/ budget > 0
    /\ CanLock
    /\ mutex' = [mutex EXCEPT !.writer = c]
    /\ pc' = [pc EXCEPT ![c] = "Stop"]
    /\ budget' = IF StopIsNoOp THEN budget ELSE budget - 1
    /\ UNCHANGED <<engineVars, chanVars, now, arg, held, taskVars, ghostVars>>
    /\ UNCHANGED <<codec, heap>>

\* a check that lets a zero tickMS through
InvalidTickNegative(tickMS) == tickMS < 0
\* if tickMS <= 0 { panic(...) }
InvalidTick(tickMS) == tickMS <= 0

\* Run(tickMS) up to engine.mutex.Lock(): the check of tickMS, then the lock
RunCall(c, tickMS) ==
    /\ pc[c] = "idle"
    /\ IF InvalidTick(tickMS)
       THEN /\ pc' = [pc EXCEPT ![c] = "panicked"]
            /\ UNCHANGED <<mutex, arg, budget>>
       ELSE /\ RunIsNoOp \/ (budget > 0 /\ made < MaxRuns)
            /\ CanLock
            /\ mutex' = [mutex EXCEPT !.writer = c]
            /\ pc' = [pc EXCEPT ![c] = "Run"]
            /\ arg' = [arg EXCEPT ![c] = tickMS]
            /\ budget' = IF RunIsNoOp THEN budget ELSE budget - 1
    /\ UNCHANGED <<engineVars, chanVars, now, held, taskVars, ghostVars>>
    /\ UNCHANGED <<codec, heap>>

\* -------------------------------------------------- API: critical sections
\* the caller leaves a write critical section (defer engine.mutex.Unlock())
Return(c) ==
    /\ mutex' = Unlocked
    /\ pc' = [pc EXCEPT ![c] = "idle"]

\* a world pointer no longer refers to the engine's world once it is replaced
DropWorldRefs == [c \in Callers |-> 0]
\* an object pointer no longer refers to a table entry once the entry is replaced or deleted
DropObjectRefs(ids) == [c \in Callers |-> IF held[c] \in ids THEN 0 ELSE held[c]]

\* close(ch) panics on a nil channel and on a closed channel
ClosePanics(ch) == ch = 0 \/ closed[ch]

\* a Stop that leaves the stop channel open
StopBodyNotClosing(c) ==
    /\ pc[c] = "Stop"
    /\ mutex' = Unlocked
    /\ IF StopIsNoOp
       THEN /\ pc' = [pc EXCEPT ![c] = "idle"]
            /\ UNCHANGED <<running, tickerStopped>>
       ELSE /\ running' = FALSE
            /\ IF updateTicker = 0
               THEN /\ pc' = [pc EXCEPT ![c] = "panicked"]
                    /\ UNCHANGED tickerStopped
               ELSE /\ pc' = [pc EXCEPT ![c] = "idle"]
                    /\ tickerStopped' = [tickerStopped EXCEPT ![updateTicker] = TRUE]
    /\ UNCHANGED <<world, stopChannel, updateSignal, updateTicker, lastUpdate, made, closed,
                   sigLen, tickerPeriod, tickerC, now, arg, held, taskVars, budget, ghostVars>>
    /\ UNCHANGED <<codec, heap>>

\* Stop() under the lock; the deferred Unlock runs also when Stop panics
StopBody(c) ==
    /\ pc[c] = "Stop"
    /\ mutex' = Unlocked
    /\ IF StopIsNoOp
       THEN /\ pc' = [pc EXCEPT ![c] = "idle"]
            /\ UNCHANGED <<running, closed, tickerStopped>>
       ELSE /\ running' = FALSE
            /\ IF ClosePanics(stopChannel)
               THEN /\ pc' = [pc EXCEPT ![c] = "panicked"]
                    /\ UNCHANGED <<closed, tickerStopped>>
               ELSE /\ closed' = [closed EXCEPT ![stopChannel] = TRUE]
                    /\ IF updateTicker = 0
                       THEN \* a nil *time.Ticker
                            /\ pc' = [pc EXCEPT ![c] = "panicked"]
                            /\ UNCHANGED tickerStopped
                       ELSE /\ pc' = [pc EXCEPT ![c] = "idle"]
                            /\ tickerStopped' = [tickerStopped EXCEPT ![updateTicker] = TRUE]
    /\ UNCHANGED <<world, stopChannel, updateSignal, updateTicker, lastUpdate, made, sigLen,
                   tickerPeriod, tickerC, now, arg, held, taskVars, budget, ghostVars>>
    /\ UNCHANGED <<codec, heap>>

\* time.Duration(tickMS) * time.Millisecond, in milliseconds: the conversion
\* to time.Duration drops the fraction of tickMS
TickDuration(tickMS) == tickMS \div Unit

RunBody(c) ==
    /\ pc[c] = "Run"
    /\ IF RunIsNoOp
       THEN /\ Return(c)
            /\ UNCHANGED <<engineVars, chanVars, taskVars, ghostVars>>
       ELSE LET g == made + 1 IN
            /\ running' = TRUE
            /\ stopChannel' = g
            /\ updateSignal' = g
            /\ lastUpdate' = now
            /\ made' = g
            /\ runClock' = now
            /\ sumElapsed' = 0
            /\ sinceSetWorld' = FALSE
            /\ UNCHANGED <<world, closed, sigLen, tickerStopped, tickerC>>
            /\ IF TickDuration(arg[c]) <= 0
               THEN \* time.NewTicker panics; engine.mutex stays locked
                    /\ pc' = [pc EXCEPT ![c] = "panicked"]
                    /\ UNCHANGED <<mutex, updateTicker, tickerPeriod, taskVars>>
               ELSE /\ updateTicker' = g
                    /\ tickerPeriod' = [tickerPeriod EXCEPT ![g] = TickDuration(arg[c])]
                    /\ Return(c)
                    /\ timer' = [timer EXCEPT ![g].pc = "start"]
                    /\ worker' = [worker EXCEPT ![g].pc = "select"]
    /\ arg' = [arg EXCEPT ![c] = 0]
    /\ UNCHANGED <<now, held, budget>>
    /\ UNCHANGED <<codec, heap>>

\* a CreateWorld that carries the objects of the old World over
CreateWorldBodyKeepingObjects(c, gravity, boundary) ==
    /\ pc[c] = "CreateWorld"
    /\ Return(c)
    /\ world' = IF world.nil THEN NewWorld(gravity, boundary)
                ELSE [NewWorld(gravity, boundary) EXCEPT !.Objects = world.Objects]
    /\ held' = DropWorldRefs
    /\ UNCHANGED <<running, stopChannel, updateSignal, updateTicker, lastUpdate, chanVars,
                   now, arg, taskVars, budget, ghostVars>>
    /\ UNCHANGED <<codec, heap>>

CreateWorldBody(c, gravity, boundary) ==
    /\ pc[c] = "CreateWorld"
    /\ Return(c)
    /\ world' = NewWorld(gravity, boundary)
    /\ held' = DropWorldRefs
    /\ UNCHANGED <<running, stopChannel, updateSignal, updateTicker, lastUpdate, chanVars,
                   now, arg, taskVars, budget, ghostVars>>
    /\ UNCHANGED <<codec, heap>>

\* a SetWorld that leaves lastUpdate as it was
SetWorldBodyKeepingClock(c, w, rtt) ==
    /\ pc[c] = "SetWorld"
    /\ Return(c)
    /\ world' \in (IF rtt > 0 THEN update(w, rtt) ELSE {w})
    /\ held' = DropWorldRefs
    /\ sinceSetWorld' = TRUE
    /\ runClock' = 0
    /\ sumElapsed' = 0
    /\ UNCHANGED <<running, stopChannel, updateSignal, updateTicker, lastUpdate, chanVars,
                   now, arg, taskVars, budget>>
    /\ UNCHANGED <<codec, heap>>

\* a panic of update leaves SetWorld through the deferred Unlock, before
\* lastUpdate is assigned
SetWorldBody(c, w, rtt) ==
    /\ pc[c] = "SetWorld"
    /\ mutex' = Unlocked
    /\ IF PassPanics(w, rtt)
       THEN /\ \E S \in SUBSET LiveIds(w) : world' = UpdatedSome(w, rtt, S)
            /\ pc' = [pc EXCEPT ![c] = "panicked"]
            /\ UNCHANGED lastUpdate
       ELSE /\ world' \in (IF rtt > 0 THEN update(w, rtt) ELSE {w})
            /\ pc' = [pc EXCEPT ![c] = "idle"]
            /\ lastUpdate' = now
    /\ held' = DropWorldRefs
    /\ sinceSetWorld' = TRUE
    /\ runClock' = 0
    /\ sumElapsed' = 0
    /\ UNCHANGED <<running, stopChannel, updateSignal, updateTicker, chanVars, now, arg,
                   taskVars, budget>>
    /\ UNCHANGED <<codec, heap>>

\* the frame of a call that writes only the world
WorldOnly ==
    UNCHANGED <<running, stopChannel, updateSignal, updateTicker, lastUpdate, chanVars,
                now, arg, taskVars, budget, ghostVars>>

\* world.Objects[obj.ID] = obj for every obj of the list, in order
RECURSIVE UpsertAll(_, _)
UpsertAll(objects, list) ==
    IF list = <<>> THEN objects
    ELSE UpsertAll([id \in DOMAIN objects \cup {Head(list).ID} |->
                        IF id = Head(list).ID THEN Head(list) ELSE objects[id]],
                   Tail(list))

\* delete(world.Objects, id) for every id of the set
DeleteAll(objects, ids) == [id \in DOMAIN objects \ ids |-> objects[id]]

SeqRange(s) == {s[i] : i \in DOMAIN s}

UpsertObjectBody(c, obj) ==
    /\ pc[c] = "UpsertObject"
    /\ Return(c)
    /\ IF ~getWorld.nil
       THEN /\ world' = [world EXCEPT !.Objects = UpsertAll(@, <<obj>>)]
            /\ held' = DropObjectRefs({obj.ID})
       ELSE UNCHANGED <<world, held>>
    /\ WorldOnly
    /\ UNCHANGED <<codec, heap>>

UpsertObjectsBody(c, objects) ==
    /\ pc[c] = "UpsertObjects"
    /\ Return(c)
    /\ IF ~getWorld.nil
       THEN /\ world' = [world EXCEPT !.Objects = UpsertAll(@, objects)]
            /\ held' = DropObjectRefs({o.ID : o \in SeqRange(objects)})
       ELSE UNCHANGED <<world, held>>
    /\ WorldOnly
    /\ UNCHANGED <<codec, heap>>

\* AddImpulse that links the new node behind the chain
AddImpulseBodyAppending(c, id, direction, damping) ==
    /\ pc[c] = "AddImpulse"
    /\ Return(c)
    /\ IF getObject(id) # <<>>
       THEN world' = [world EXCEPT !.Objects[id].Impulses =
                         @ \o <<[Direction |-> direction, Damping |-> damping]>>]
       ELSE UNCHANGED world
    /\ UNCHANGED held
    /\ WorldOnly
    /\ UNCHANGED <<codec, heap>>

AddImpulseBody(c, id, direction, damping) ==
    /\ pc[c] = "AddImpulse"
    /\ Return(c)
    /\ IF getObject(id) # <<>>
       THEN world' = [world EXCEPT !.Objects[id].Impulses =
                         <<[Direction |-> direction, Damping |-> damping]>> \o @]
       ELSE UNCHANGED world
    /\ UNCHANGED held
    /\ WorldOnly
    /\ UNCHANGED <<codec, heap>>

SetVelocityBody(c, id, velocity) ==
    /\ pc[c] = "SetVelocity"
    /\ Return(c)
    /\ IF getObject(id) # <<>>
       THEN world' = [world EXCEPT !.Objects[id].Velocity = velocity]
       ELSE UNCHANGED world
    /\ UNCHANGED held
    /\ WorldOnly
    /\ UNCHANGED <<codec, heap>>

\* a SetPosition that adds the object when the id is not in the World
SetPositionBodyCreating(c, id, position) ==
    /\ pc[c] = "SetPosition"
    /\ Return(c)
    /\ IF ~getWorld.nil
       THEN world' = [world EXCEPT !.Objects =
                         UpsertAll(@, <<[(IF getObject(id) # <<>> THEN getObject(id)[1]
                                          ELSE [ID |-> id, Type |-> "Other", Client |-> FALSE,
                                                Size |-> Vec(0, 0), Velocity |-> Vec(0, 0),
                                                Position |-> Vec(0, 0), Anchor |-> Vec(0, 0),
                                                GravityFactor |-> 0, Impulses |-> <<>>])
                                         EXCEPT !.Position = position]>>)]
       ELSE UNCHANGED world
    /\ UNCHANGED held
    /\ WorldOnly
    /\ UNCHANGED <<codec, heap>>

SetPositionBody(c, id, position) ==
    /\ pc[c] = "SetPosition"
    /\ Return(c)
    /\ IF getObject(id) # <<>>
       THEN world' = [world EXCEPT !.Objects[id].Position = position]
       ELSE UNCHANGED world
    /\ UNCHANGED held
    /\ WorldOnly
    /\ UNCHANGED <<codec, heap>>

SetAnchorBody(c, id, anchor) ==
    /\ pc[c] = "SetAnchor"
    /\ Return(c)
    /\ IF getObject(id) # <<>>
       THEN world' = [world EXCEPT !.Objects[id].Anchor = anchor]
       ELSE UNCHANGED world
    /\ UNCHANGED held
    /\ WorldOnly
    /\ UNCHANGED <<codec, heap>>

RemoveObjectBody(c, id) ==
    /\ pc[c] = "RemoveObject"
    /\ Return(c)
    /\ IF ~getWorld.nil
       THEN /\ world' = [world EXCEPT !.Objects = DeleteAll(@, {id})]
            /\ held' = DropObjectRefs({id})
       ELSE UNCHANGED <<world, held>>
    /\ WorldOnly
    /\ UNCHANGED <<codec, heap>>

\* RemoveObjects that deletes the first id of the list only
RemoveObjectsBodyFirstOnly(c, ids) ==
    /\ pc[c] = "RemoveObjects"
    /\ Return(c)
    /\ IF ~getWorld.nil
       THEN /\ world' = [world EXCEPT !.Objects = DeleteAll(@, IF ids = <<>> THEN {} ELSE {Head(ids)})]
            /\ held' = DropObjectRefs(SeqRange(ids))
       ELSE UNCHANGED <<world, held>>
    /\ WorldOnly
    /\ UNCHANGED <<codec, heap>>

RemoveObjectsBody(c, ids) ==
    /\ pc[c] = "RemoveObjects"
    /\ Return(c)
    /\ IF ~getWorld.nil
       THEN /\ world' = [world EXCEPT !.Objects = DeleteAll(@, SeqRange(ids))]
            /\ held' = DropObjectRefs(SeqRange(ids))
       ELSE UNCHANGED <<world, held>>
    /\ WorldOnly
    /\ UNCHANGED <<codec, heap>>

\* GetWorld and GetObject called directly: the pointer is returned and dropped
GetBody(c) ==
    /\ pc[c] \in {"GetWorld", "GetObject"}
    /\ mutex' = RUnlocked(c)
    /\ pc' = [pc EXCEPT ![c] = "idle"]
    /\ UNCHANGED <<engineVars, chanVars, now, arg, held, taskVars, budget, ghostVars>>
    /\ UNCHANGED <<codec, heap>>

\* binding GetWorldPtr / GetWorldBytes: singleton.GetWorld() returns the world
\* pointer and releases the lock; the conversion of the world follows
GetWorldPtrBody(c) ==
    /\ pc[c] \in {"GetWorldPtr", "GetWorldBytes"}
    /\ mutex' = RUnlocked(c)
    /\ IF getWorld.nil
       THEN /\ pc' = [pc EXCEPT ![c] = "idle"]
            /\ UNCHANGED held
       ELSE /\ pc' = [pc EXCEPT ![c] = "convert"]
            /\ held' = [held EXCEPT ![c] = -1]
    /\ UNCHANGED <<engineVars, chanVars, now, arg, taskVars, budget, ghostVars>>
    /\ UNCHANGED <<codec, heap>>

\* binding GetObjectPtr: singleton.GetObject(id) returns the object pointer
\* and releases the lock; _convertObjectToC follows
GetObjectPtrBody(c, id) ==
    /\ pc[c] = "GetObjectPtr"
    /\ mutex' = RUnlocked(c)
    /\ IF getObject(id) = <<>>
       THEN /\ pc' = [pc EXCEPT ![c] = "idle"]
            /\ UNCHANGED held
       ELSE /\ pc' = [pc EXCEPT ![c] = "convert"]
            /\ held' = [held EXCEPT ![c] = id]
    /\ UNCHANGED <<engineVars, chanVars, now, arg, taskVars, budget, ghostVars>>
    /\ UNCHANGED <<codec, heap>>

\* the conversion (_convertWorldToC, World.ToBytes, _convertObjectToC) ends
ConvertDone(c) ==
    /\ pc[c] = "convert"
    /\ pc' = [pc EXCEPT ![c] = "idle"]
    /\ held' = [held EXCEPT ![c] = 0]
    /\ UNCHANGED <<engineVars, mutex, chanVars, now, arg, taskVars, budget, ghostVars>>
    /\ UNCHANGED <<codec, heap>>

\* ------------------------------------------------------- timer goroutine
updateSignalCap == 1                  \* make(chan struct{}, 1)

\* defer engine.updateTicker.Stop(): the receiver is evaluated here
TimerStart(g) ==
    /\ timer[g].pc = "start"
    /\ timer' = [timer EXCEPT ![g].pc = "select", ![g].dt = updateTicker]
    /\ UNCHANGED <<engineVars, mutex, chanVars, now, pc, arg, held, worker, budget, ghostVars>>
    /\ UNCHANGED <<codec, heap>>

\* the outer select evaluates engine.updateTicker.C and engine.stopChannel
TimerSelect(g) ==
    /\ timer[g].pc = "select"
    /\ timer' = [timer EXCEPT ![g].pc = "wait", ![g].tk = updateTicker, ![g].st = stopChannel]
    /\ UNCHANGED <<engineVars, mutex, chanVars, now, pc, arg, held, worker, budget, ghostVars>>
    /\ UNCHANGED <<codec, heap>>

\* case <-engine.updateTicker.C
TimerTick(g) ==
    /\ timer[g].pc = "wait"
    /\ tickerC[timer[g].tk] > 0
    /\ tickerC' = [tickerC EXCEPT ![timer[g].tk] = @ - 1]
    /\ timer' = [timer EXCEPT ![g].pc = "post"]
    /\ UNCHANGED <<engineVars, mutex, made, closed, sigLen, tickerPeriod, tickerStopped,
                   now, pc, arg, held, worker, budget, ghostVars>>
    /\ UNCHANGED <<codec, heap>>

\* a send that queues the marker whatever is pending
SendAlways(ch) == sigLen[ch] + 1
\* the markers in channel ch after a send that does not block
TrySend(ch) == IF sigLen[ch] < updateSignalCap THEN sigLen[ch] + 1 ELSE sigLen[ch]

\* select { case engine.updateSignal <- struct{}{}: default: }
TimerPost(g) ==
    /\ timer[g].pc = "post"
    /\ sigLen' = [sigLen EXCEPT ![updateSignal] = TrySend(updateSignal)]
    /\ timer' = [timer EXCEPT ![g].pc = "select"]
    /\ UNCHANGED <<engineVars, mutex, made, closed, tickerPeriod, tickerStopped, tickerC,
                   now, pc, arg, held, worker, budget, ghostVars>>
    /\ UNCHANGED <<codec, heap>>

\* case <-engine.stopChannel: return, and the deferred Stop of the ticker runs
TimerStop(g) ==
    /\ timer[g].pc = "wait"
    /\ closed[timer[g].st]
    /\ tickerStopped' = [tickerStopped EXCEPT ![timer[g].dt] = TRUE]
    /\ timer' = [timer EXCEPT ![g].pc = "done"]
    /\ UNCHANGED <<engineVars, mutex, made, closed, sigLen, tickerPeriod, tickerC,
                   now, pc, arg, held, worker, budget, ghostVars>>
    /\ UNCHANGED <<codec, heap>>

\* ------------------------------------------------------ worker goroutine
\* the select evaluates engine.updateSignal and engine.stopChannel
WorkerSelect(g) ==
    /\ worker[g].pc = "select"
    /\ worker' = [worker EXCEPT ![g].pc = "wait", ![g].us = updateSignal, ![g].st = stopChannel]
    /\ UNCHANGED <<engineVars, mutex, chanVars, now, pc, arg, held, timer, budget, ghostVars>>
    /\ UNCHANGED <<codec, heap>>

\* case <-engine.updateSignal
WorkerSignal(g) ==
    /\ worker[g].pc = "wait"
    /\ sigLen[worker[g].us] > 0
    /\ sigLen' = [sigLen EXCEPT ![worker[g].us] = @ - 1]
    /\ worker' = [worker EXCEPT ![g].pc = "lock"]
    /\ UNCHANGED <<engineVars, mutex, made, closed, tickerPeriod, tickerStopped, tickerC,
                   now, pc, arg, held, timer, budget, ghostVars>>
    /\ UNCHANGED <<codec, heap>>

\* case <-engine.stopChannel: return
WorkerStop(g) ==
    /\ worker[g].pc = "wait"
    /\ closed[worker[g].st]
    /\ worker' = [worker EXCEPT ![g].pc = "done"]
    /\ UNCHANGED <<engineVars, mutex, chanVars, now, pc, arg, held, timer, budget, ghostVars>>
    /\ UNCHANGED <<codec, heap>>

\* engine.mutex.Lock()
WorkerLock(g) ==
    /\ worker[g].pc = "lock"
    /\ CanLock
    /\ mutex' = [mutex EXCEPT !.writer = WorkerId(g)]
    /\ worker' = [worker EXCEPT ![g].pc = "pass"]
    /\ UNCHANGED <<engineVars, chanVars, now, pc, arg, held, timer, budget, ghostVars>>
    /\ UNCHANGED <<codec, heap>>

\* the time since Run instead of the time since the last pass
ElapsedSinceRun == now - runClock
\* now.Sub(engine.lastUpdate).Seconds()
Elapsed == now - lastUpdate

\* the pass: update(elapsed), lastUpdate = now, and the deferred Unlock; a
\* panic of update is not recovered: the Unlock runs and the goroutine ends
\* (and with it the program)
WorkerPass(g) ==
    /\ worker[g].pc = "pass"
    /\ IF PassPanics(world, Elapsed * Unit)
       THEN /\ \E S \in SUBSET LiveIds(world) : world' = UpdatedSome(world, Elapsed * Unit, S)
            /\ worker' = [worker EXCEPT ![g].pc = "panicked"]
            /\ UNCHANGED <<lastUpdate, sumElapsed>>
       ELSE /\ world' \in update(world, Elapsed * Unit)
            /\ lastUpdate' = now
            /\ sumElapsed' = IF sinceSetWorld THEN 0 ELSE sumElapsed + Elapsed
            /\ worker' = [worker EXCEPT ![g].pc = "select"]
    /\ mutex' = Unlocked
    /\ UNCHANGED <<running, stopChannel, updateSignal, updateTicker, chanVars, now, pc, arg,
                   held, timer, budget, runClock, sinceSetWorld>>
    /\ UNCHANGED <<codec, heap>>

\* ------------------------------------------------------------ environment
\* the runtime sends a tick on the ticker's channel (buffer of one) unless the
\* ticker is stopped
TickerFire(g) ==
    /\ tickerPeriod[g] > 0
    /\ ~tickerStopped[g]
    /\ tickerC[g] = 0
    /\ tickerC' = [tickerC EXCEPT ![g] = 1]
    /\ UNCHANGED <<engineVars, mutex, made, closed, sigLen, tickerPeriod, tickerStopped,
                   now, pc, arg, held, taskVars, budget, ghostVars>>
    /\ UNCHANGED <<codec, heap>>

\* the wall clock advances
ClockTick ==
    /\ now < 1 + MaxClock
    /\ now' = now + 1
    /\ UNCHANGED <<engineVars, mutex, chanVars, pc, arg, held, taskVars, budget, ghostVars>>
    /\ UNCHANGED <<codec, heap>>

\* ------------------------------------------------------------ specification
Next ==
    \/ \E c \in Writers, op \in WriteOps \ {"Run", "Stop"} : WriteCall(c, op)
    \/ \E c \in Writers : StopCall(c)
    \/ \E c \in Readers, op \in ReadOps : ReadCall(c, op)
    \/ \E c \in Writers, tickMS \in TickValues : RunCall(c, tickMS)
    \/ \E c \in Writers : StopBody(c)
    \/ \E c \in Writers : RunBody(c)
    \/ \E c \in Writers, gravity \in Gravities, boundary \in Boundaries :
          CreateWorldBody(c, gravity, boundary)
    \/ \E c \in Writers, w \in Worlds, rtt \in RttValues : SetWorldBody(c, w, rtt)
    \/ \E c \in Writers, obj \in Objs : UpsertObjectBody(c, obj)
    \/ \E c \in Writers, objects \in ObjLists : UpsertObjectsBody(c, objects)
    \/ \E c \in Writers, id \in Ids, direction \in Directions, damping \in Dampings :
          AddImpulseBody(c, id, direction, damping)
    \/ \E c \in Writers, id \in Ids, v \in Vectors : SetVelocityBody(c, id, v)
    \/ \E c \in Writers, id \in Ids, v \in Vectors : SetPositionBody(c, id, v)
    \/ \E c \in Writers, id \in Ids, v \in Vectors : SetAnchorBody(c, id, v)
    \/ \E c \in Writers, id \in Ids : RemoveObjectBody(c, id)
    \/ \E c \in Writers, ids \in IdLists : RemoveObjectsBody(c, ids)
    \/ \E c \in Readers : GetBody(c)
    \/ \E c \in Readers : GetWorldPtrBody(c)
    \/ \E c \in Readers, id \in Ids : GetObjectPtrBody(c, id)
    \/ \E c \in Readers : ConvertDone(c)
    \/ \E g \in Gens : TimerStart(g)
    \/ \E g \in Gens : TimerSelect(g)
    \/ \E g \in Gens : TimerTick(g)
    \/ \E g \in Gens : TimerPost(g)
    \/ \E g \in Gens : TimerStop(g)
    \/ \E g \in Gens : WorkerSelect(g)
    \/ \E g \in Gens : WorkerSignal(g)
    \/ \E g \in Gens : WorkerStop(g)
    \/ \E g \in Gens : WorkerLock(g)
    \/ \E g \in Gens : WorkerPass(g)
    \/ \E g \in Gens : TickerFire(g)
    \/ ClockTick

Spec == Init /\ [][Next]_vars

\* The life cycle alone: one thread calls Run, Stop and SetWorld, with a longer
\* call sequence; every goroutine, ticker and the clock run as under Spec.
InitLife == InitEngine /\ budget = MaxLifeCalls

NextLife ==
    \/ \E c \in Writers, op \in {"SetWorld"} : WriteCall(c, op)
    \/ \E c \in Writers : StopCall(c)
    \/ \E c \in Writers, tickMS \in TickValues : RunCall(c, tickMS)
    \/ \E c \in Writers : StopBody(c)
    \/ \E c \in Writers : RunBody(c)
    \/ \E c \in Writers, w \in Worlds, rtt \in RttValues : SetWorldBody(c, w, rtt)
    \/ \E g \in Gens : TimerStart(g)
    \/ \E g \in Gens : TimerSelect(g)
    \/ \E g \in Gens : TimerTick(g)
    \/ \E g \in Gens : TimerPost(g)
    \/ \E g \in Gens : TimerStop(g)
    \/ \E g \in Gens : WorkerSelect(g)
    \/ \E g \in Gens : WorkerSignal(g)
    \/ \E g \in Gens : WorkerStop(g)
    \/ \E g \in Gens : WorkerLock(g)
    \/ \E g \in Gens : WorkerPass(g)
    \/ \E g \in Gens : TickerFire(g)
    \/ ClockTick

SpecLife == InitLife /\ [][NextLife]_vars

\* The life cycle with a shorter call sequence
InitRun == InitEngine /\ budget = MaxRunCalls
SpecRun == InitRun /\ [][NextLife]_vars

\* The integration pass as a function of its inputs: SetWorld(w, 0) stores a
\* World with one object drawn from PhysObjects (or the two objects of
\* MixedWorlds), and SetWorld(GetWorld(), rtt) runs one pass with elapsed = rtt
\* over the stored World.
PhysSizes == {Vec(0, 0), Vec(2 * Unit, 2 * Unit), Vec(12 * Unit, 12 * Unit)}
PhysPositions == {Vec(x, y) : x \in {2 * Unit, 8 * Unit}, y \in {0, 1, Unit, 5 * Unit}}
PhysVelocities == {Vec(x, y) : x \in {-20 * Unit, 0, 20 * Unit}, y \in {-10 * Unit, 0, 10 * Unit}}
PhysGravityFactors == {0, Unit}
PhysImpulses == {<<>>, <<[Direction |-> Vec(Unit, Unit), Damping |-> Unit \div 2]>>}
PhysElapsed == {Unit, 2 * Unit}
PhysObjects ==
    {[ID |-> 1, Type |-> type, Client |-> FALSE, Size |-> size, Velocity |-> velocity,
      Position |-> position, Anchor |-> Vec(0, 0), GravityFactor |-> factor,
      Impulses |-> impulses] :
        type \in ObjectTypes, size \in PhysSizes, velocity \in PhysVelocities,
        position \in PhysPositions, factor \in PhysGravityFactors, impulses \in PhysImpulses}
PhysBoundary == Vec(10 * Unit, 10 * Unit)
PhysWorlds ==
    {[NewWorld(Unit, PhysBoundary) EXCEPT !.Objects = (1 :> obj)] : obj \in PhysObjects}
\* an object without physics beside an Effect in flight
MixedWorlds ==
    {[NewWorld(Unit, PhysBoundary) EXCEPT
         !.Objects = (1 :> [Obj(1, type) EXCEPT !.Velocity = Vec(Unit, Unit),
                                                !.Impulses = <<[Direction |-> Vec(Unit, Unit),
                                                               Damping |-> Unit \div 2]>>])
                     @@ (2 :> [Obj(2, "Effect") EXCEPT !.Velocity = Vec(20 * Unit, 0)])] :
        type \in ObjectTypes \ MovingTypes}

\* gravity 9.8, boundary {100,100}, a Creature at {50,90} of size {10,10}
GravityWorlds ==
    {[NewWorld((98 * Unit) \div 10, Vec(100 * Unit, 100 * Unit)) EXCEPT
         !.Objects = (1 :> [Obj(1, "Creature") EXCEPT !.Position = Vec(50 * Unit, 90 * Unit),
                                                     !.Size = Vec(10 * Unit, 10 * Unit)])]}

StoredWorlds == PhysWorlds \cup MixedWorlds \cup GravityWorlds

InitPhys == InitEngine /\ budget = MaxPhysCalls

\* SetWorld(w, 0) on the engine that holds no World yet
StoreWorld(c) ==
    \E w \in StoredWorlds : world.nil /\ SetWorldBody(c, w, 0)
\* SetWorld(GetWorld(), rtt)
Extrapolate(c) ==
    \E rtt \in PhysElapsed : ~world.nil /\ SetWorldBody(c, world, rtt)

NextPhys ==
    \/ \E c \in Writers : WriteCall(c, "SetWorld")
    \/ \E c \in Writers : StoreWorld(c)
    \/ \E c \in Writers : Extrapolate(c)

SpecPhys == InitPhys /\ [][NextPhys]_vars

\* ---------------------------------------------------- impulse chains
\* nodes that stay after one second (StayHalf decays, StayConstant and
\* StayOneAxis do not) and nodes that go (GoSmall decays below the threshold,
\* GoInstant has a damping of 0)
StayHalf == [Direction |-> Vec(Unit, Unit), Damping |-> Unit \div 2]
StayConstant == [Direction |-> Vec(4 * Unit, 0), Damping |-> Unit]
StayOneAxis == [Direction |-> Vec(1, Unit), Damping |-> Unit]
GoSmall == [Direction |-> Vec(2, 3), Damping |-> Unit \div 2]
GoInstant == [Direction |-> Vec(Unit, -Unit), Damping |-> 0]
ChainNodes == {StayHalf, StayConstant, StayOneAxis, GoSmall, GoInstant}

ChainInputs ==
    {<<>>} \cup {<<a>> : a \in ChainNodes}
           \cup {<<a, b>> : a, b \in ChainNodes}
           \cup {<<a, b, d>> : a, b, d \in ChainNodes}
           \cup {<<StayHalf, GoInstant, GoInstant, StayConstant>>}

\* an Effect without gravity that carries the chain, and a second object
ChainWorlds ==
    {[NewWorld(Unit, PhysBoundary) EXCEPT
         !.Objects = (1 :> [Obj(1, "Effect") EXCEPT !.GravityFactor = 0, !.Impulses = chain])
                     @@ (2 :> [Obj(2, "Item") EXCEPT !.Impulses = <<StayHalf>>])]
     : chain \in ChainInputs}

\* the impulses AddImpulse is called with
AddedImpulses ==
    {[Direction |-> Vec(10 * Unit, 0), Damping |-> (9 * Unit) \div 10],
     [Direction |-> Vec(0, Unit), Damping |-> Unit],
     [Direction |-> Vec(3 * Unit, -Unit), Damping |-> negligibleFloat],
     [Direction |-> Vec(Unit, 0), Damping |-> (3 * Unit) \div 2]}
AddedIds == {1, 2, 3}

InitChain == InitEngine /\ budget = MaxChainCalls

StoreChainWorld(c) == \E w \in ChainWorlds : world.nil /\ SetWorldBody(c, w, 0)

NextChain ==
    \/ \E c \in Writers, op \in {"SetWorld", "AddImpulse"} : WriteCall(c, op)
    \/ \E c \in Writers : StoreChainWorld(c)
    \/ \E c \in Writers : Extrapolate(c)
    \/ \E c \in Writers, id \in AddedIds, imp \in AddedImpulses :
          AddImpulseBody(c, id, imp.Direction, imp.Damping)

SpecChain == InitChain /\ [][NextChain]_vars

\* ----------------------------------------------------- a decaying impulse
\* one object without gravity and without impulses
DecayWorlds ==
    {[NewWorld(Unit, PhysBoundary) EXCEPT
         !.Objects = (1 :> [Obj(1, type) EXCEPT !.GravityFactor = 0])]
     : type \in {"Creature", "Effect"}}

\* AddImpulse(1, {10,0}, 0.9) and a second impulse with a faster decay
DecayImpulses ==
    {[Direction |-> Vec(10 * Unit, 0), Damping |-> (9 * Unit) \div 10],
     [Direction |-> Vec(-3 * Unit, 7 * Unit), Damping |-> Unit \div 2]}

InitDecay == InitEngine /\ budget = MaxDecayCalls

StoreDecayWorld(c) == \E w \in DecayWorlds : world.nil /\ SetWorldBody(c, w, 0)

\* the caller adds an impulse to an object that carries none, while enough
\* calls are left to see it decay
AddImpulseCall(c) ==
    /\ ~world.nil
    /\ world.Objects[1].Impulses = <<>>
    /\ budget > MaxDecayPasses
    /\ WriteCall(c, "AddImpulse")

\* a pass of one second over the current World
DecayPass(c) == ~world.nil /\ SetWorldBody(c, world, Unit)

NextDecay ==
    \/ \E c \in Writers : WriteCall(c, "SetWorld")
    \/ \E c \in Writers : StoreDecayWorld(c)
    \/ \E c \in Writers : DecayPass(c)
    \/ \E c \in Writers : AddImpulseCall(c)
    \/ \E c \in Writers, imp \in DecayImpulses :
          AddImpulseBody(c, 1, imp.Direction, imp.Damping)

\* a caller keeps calling while it can
DecayFairness == WF_vars(NextDecay)

SpecDecay == InitDecay /\ [][NextDecay]_vars /\ DecayFairness

\* ------------------------------------------------------------------ codec
\* A FlatBuffers buffer, by what it holds: the items of the buffer by their
\* offset from the end of the buffer (the offsets the Builder hands out), the
\* offset of the root table and the length.  A struct item holds X and Y, a
\* table item its slots that were written (a slot holds a scalar or the offset
\* of a struct, a table or a vector), a vector item the offsets of its elements.
WithItem(f, o, item) == [p \in DOMAIN f \cup {o} |-> IF p = o THEN item ELSE f[p]]

\* int32(x) for an int of 64 bits that is less than 2^32 away from the range
MaxInt32 == 2147483647
Int32(x) ==
    IF x > MaxInt32 THEN x - MaxInt32 - MaxInt32 - 2
    ELSE IF x < -MaxInt32 - 1 THEN x + MaxInt32 + MaxInt32 + 2
    ELSE x

\* Game.ObjectType(obj.Type) and ObjectType(obj.Type()): the enumerations of
\* the engine and of the schema have the same order
TypeCode(type) ==
    CASE type = "Other" -> 0 [] type = "Creature" -> 1 [] type = "Projectile" -> 2
      [] type = "Effect" -> 3 [] type = "Terrain" -> 4 [] type = "Structure" -> 5
      [] type = "Item" -> 6
TypeOfCode(code) == CHOOSE type \in ObjectTypes : TypeCode(type) = code

\* flatbuffers.NewBuilder.  off is Builder.Offset(), at the items written so
\* far; locals holds the offsets the calls have returned to the function that
\* is running
NewBuilder == [off |-> 0, at |-> <<>>, locals |-> <<>>, panic |-> FALSE]
BuilderPanic(b) == [b EXCEPT !.panic = TRUE]
\* the k-th last offset returned
Local(b, k) == b.locals[Len(b.locals) - k]
\* a function returns x: its n locals go, x is a local of its caller
Returned(b, n, x) == [b EXCEPT !.locals = Append(SubSeq(@, 1, Len(@) - n), x)]

\* Game.CreateVector for each vector of the list: the 16 bytes of a struct,
\* written where the Builder is
CreateVectors(b, vecs) ==
    IF b.panic THEN [b EXCEPT !.locals = @ \o [i \in DOMAIN vecs |-> 0]]
    ELSE [b EXCEPT !.off = @ + 16 * Len(vecs),
                   !.at = [p \in DOMAIN @ \cup {b.off + 16 * i : i \in DOMAIN vecs} |->
                              IF p \in DOMAIN @ THEN @[p]
                              ELSE [kind |-> "struct", X |-> vecs[(p - b.off) \div 16].X,
                                    Y |-> vecs[(p - b.off) \div 16].Y]],
                   !.locals = @ \o [i \in DOMAIN vecs |-> b.off + 16 * i]]

serializeVector(b, vec) == CreateVectors(b, <<vec>>)

\* the argument of a Prepend...Slot call: the slot, the value x, the bytes
\* of the value, and whether the value is the offset of a struct
Field(slot, x, size) == [slot |-> slot, x |-> x, size |-> size, struct |-> FALSE]
StructField(slot, x) == [slot |-> slot, x |-> x, size |-> 0, struct |-> TRUE]

\* Builder.PrependInt32Slot, PrependBoolSlot, PrependFloat64Slot,
\* PrependUOffsetTSlot and PrependStructSlot write nothing for a value equal
\* to the default, which is 0 in the generated code
WrittenFields(fields) == {k \in DOMAIN fields : fields[k].x # 0}

\* Builder.Offset() when the k-th call is made: the scalars written before it
\* have moved it, a struct slot writes no byte
OffsetAt(b, fields, k) ==
    b.off + Cardinality({j \in WrittenFields(fields) : j < k /\ fields[j].size = 1})
          + 4 * Cardinality({j \in WrittenFields(fields) : j < k /\ fields[j].size = 4})
          + 8 * Cardinality({j \in WrittenFields(fields) : j < k /\ fields[j].size = 8})

\* Builder.PrependStructSlot: a struct is inline data, it has to be the last
\* thing written ("inline data write outside of object" otherwise)
PrependStructSlotPanics(b, fields, k) ==
    /\ fields[k].struct
    /\ fields[k].x # OffsetAt(b, fields, k)

\* Builder.StartObject, the Prepend...Slot calls in their order and
\* Builder.EndObject; the function that made the calls returns the offset of
\* the table and its n locals go
WriteTable(b, fields, n) ==
    IF b.panic THEN Returned(b, n, 0)
    ELSE IF \E k \in WrittenFields(fields) : PrependStructSlotPanics(b, fields, k)
    THEN BuilderPanic(Returned(b, n, 0))
    ELSE [b EXCEPT !.off = OffsetAt(b, fields, Len(fields) + 1) + 4,
                   !.at = WithItem(@, OffsetAt(b, fields, Len(fields) + 1) + 4,
                                   [kind |-> "table",
                                    slots |-> [s \in {fields[k].slot : k \in WrittenFields(fields)} |->
                                                  fields[CHOOSE k \in DOMAIN fields :
                                                            fields[k].slot = s].x]]),
                   !.locals = Append(SubSeq(@, 1, Len(@) - n),
                                     OffsetAt(b, fields, Len(fields) + 1) + 4)]

\* ImpulseStart .. ImpulseEnd of serializeImpulse, with next and dir the two
\* locals
ImpulseTable(b, impulse) ==
    WriteTable(b, <<StructField(0, Local(b, 0)), Field(1, impulse.Damping, 8),
                    Field(2, Local(b, 1), 4)>>, 2)

\* serializeImpulse: the rest of the chain first, then the direction, then
\* the table; it returns the offset of the table, 0 for nil
RECURSIVE serializeImpulse(_, _)
serializeImpulse(b, chain) ==
    IF chain = <<>> THEN Returned(b, 0, 0)
    ELSE ImpulseTable(serializeVector(serializeImpulse(b, Tail(chain)),
                                      Head(chain).Direction),
                      Head(chain))

\* ObjectStart .. ObjectEnd of serializeObject, with size, velocity, position,
\* anchor and impulses the five locals
ObjectTable(b, obj) ==
    WriteTable(b, <<Field(0, Int32(obj.ID), 4), Field(1, TypeCode(obj.Type), 4),
                    Field(2, IF obj.Client THEN 1 ELSE 0, 1),
                    StructField(3, Local(b, 4)), StructField(4, Local(b, 3)),
                    StructField(5, Local(b, 2)), StructField(6, Local(b, 1)),
                    Field(7, obj.GravityFactor, 8), Field(8, Local(b, 0), 4)>>, 5)

\* serializeObject: the four vectors and the chain are written before
\* ObjectStart
serializeObject(b, obj) ==
    ObjectTable(
       serializeImpulse(
          CreateVectors(b, <<obj.Size, obj.Velocity, obj.Position, obj.Anchor>>),
          obj.Impulses),
       obj)

\* the loop over world.Objects: the offsets of the tables become the locals
LeastOf(ids) == CHOOSE i \in ids : \A j \in ids : i <= j
RECURSIVE serializeObjects(_, _, _)
serializeObjects(b, objects, ids) ==
    IF ids = {} THEN b
    ELSE serializeObjects(serializeObject(b, objects[LeastOf(ids)]), objects,
                          ids \ {LeastOf(ids)})

\* WorldStartObjectsVector .. EndVector: the vector of the offsets in locals
EndVector(b) ==
    IF b.panic THEN Returned(b, Len(b.locals), 0)
    ELSE [b EXCEPT !.off = @ + 4 * Len(b.locals) + 4,
                   !.at = WithItem(@, b.off + 4 * Len(b.locals) + 4,
                                   [kind |-> "vector", elems |-> b.locals]),
                   !.locals = <<b.off + 4 * Len(b.locals) + 4>>]

\* WorldStart .. WorldEnd, with objectsVector and boundary the two locals
WorldTable(b, w) ==
    WriteTable(b, <<Field(0, w.Gravity, 8), StructField(1, Local(b, 0)),
                    Field(2, Local(b, 1), 4)>>, 2)

\* builder.Finish and builder.FinishedBytes
FinishedBytes(b) ==
    IF b.panic THEN [panic |-> TRUE]
    ELSE [panic |-> FALSE,
          data |-> [nil |-> FALSE, len |-> b.off + 4, root |-> b.off, at |-> b.at]]

\* serializeWorldToBytes: the bytes, or a panic of the Builder
serializeWorldToBytes(w) ==
    FinishedBytes(
       WorldTable(
          serializeVector(EndVector(serializeObjects(NewBuilder, w.Objects, DOMAIN w.Objects)),
                          w.Boundary),
          w))

\* a read of the buffer at an offset it does not hold runs off the slice
OutOfRange(data, o) == o \notin DOMAIN data.at
\* the accessors of the generated tables: the slot, or its default
Slot(table, slot, d) == IF slot \in DOMAIN table.slots THEN table.slots[slot] ELSE d

\* deserializeVector: vec is nil when the struct slot is not set, and vec.X()
\* of a nil pointer panics
deserializeVector(data, o) ==
    IF o = 0 \/ OutOfRange(data, o) THEN [panic |-> TRUE]
    ELSE [panic |-> FALSE, v |-> Vec(data.at[o].X, data.at[o].Y)]

\* deserializeImpulse: nil for nil, otherwise the node and the rest of the chain
RECURSIVE deserializeImpulse(_, _)
deserializeImpulse(data, o) ==
    IF o = 0 THEN [panic |-> FALSE, chain |-> <<>>]
    ELSE IF OutOfRange(data, o) THEN [panic |-> TRUE]
    ELSE LET t == data.at[o]
             direction == deserializeVector(data, Slot(t, 0, 0))
             next == deserializeImpulse(data, Slot(t, 2, 0))
         IN IF direction.panic \/ next.panic THEN [panic |-> TRUE]
            ELSE [panic |-> FALSE,
                  chain |-> <<[Direction |-> direction.v, Damping |-> Slot(t, 1, 0)]>>
                            \o next.chain]

\* deserializeObject
deserializeObject(data, o) ==
    IF OutOfRange(data, o) THEN [panic |-> TRUE]
    ELSE LET t == data.at[o]
             size == deserializeVector(data, Slot(t, 3, 0))
             velocity == deserializeVector(data, Slot(t, 4, 0))
             position == deserializeVector(data, Slot(t, 5, 0))
             anchor == deserializeVector(data, Slot(t, 6, 0))
             impulses == deserializeImpulse(data, Slot(t, 8, 0))
         IN IF size.panic \/ velocity.panic \/ position.panic \/ anchor.panic \/ impulses.panic
            THEN [panic |-> TRUE]
            ELSE [panic |-> FALSE,
                  obj |-> [ID |-> Slot(t, 0, 0), Type |-> TypeOfCode(Slot(t, 1, 0)),
                           Client |-> Slot(t, 2, 0) # 0, Size |-> size.v,
                           Velocity |-> velocity.v, Position |-> position.v,
                           Anchor |-> anchor.v, GravityFactor |-> Slot(t, 7, 0),
                           Impulses |-> impulses.chain]]

\* a loop that stores the i-th object under i
RECURSIVE deserializeObjectsByIndex(_, _, _)
deserializeObjectsByIndex(data, elems, objects) ==
    IF elems = <<>> THEN [panic |-> FALSE, objects |-> objects]
    ELSE LET one == deserializeObject(data, Head(elems))
         IN IF one.panic THEN [panic |-> TRUE]
            ELSE deserializeObjectsByIndex(data, Tail(elems),
                                           WithItem(objects, Cardinality(DOMAIN objects), one.obj))

\* the loop of deserializeWorldFromBytes: objects[goObj.ID] = goObj
RECURSIVE deserializeObjects(_, _, _)
deserializeObjects(data, elems, objects) ==
    IF elems = <<>> THEN [panic |-> FALSE, objects |-> objects]
    ELSE LET one == deserializeObject(data, Head(elems))
         IN IF one.panic THEN [panic |-> TRUE]
            ELSE deserializeObjects(data, Tail(elems), WithItem(objects, one.obj.ID, one.obj))

\* a decoder that goes to the root of any buffer
deserializeWorldFromBytesUnchecked(data) ==
    IF data.len < 4 \/ OutOfRange(data, data.root) THEN [panic |-> TRUE]
    ELSE LET t == data.at[data.root]
             vector == Slot(t, 2, 0)
             boundary == deserializeVector(data, Slot(t, 1, 0))
             objects == IF vector = 0 THEN [panic |-> FALSE, objects |-> <<>>]
                        ELSE IF OutOfRange(data, vector) THEN [panic |-> TRUE]
                        ELSE deserializeObjects(data, data.at[vector].elems, <<>>)
         IN IF objects.panic \/ boundary.panic THEN [panic |-> TRUE]
            ELSE [panic |-> FALSE,
                  world |-> [nil |-> FALSE, Gravity |-> Slot(t, 0, 0), Boundary |-> boundary.v,
                             Objects |-> objects.objects]]

\* deserializeWorldFromBytes: nil for no data; otherwise the World the buffer
\* describes, or a panic where a read runs off the buffer or a vector is nil
deserializeWorldFromBytes(data) ==
    IF data.nil \/ data.len = 0 THEN [panic |-> FALSE, world |-> NoWorld]
    ELSE IF data.len < 4 \/ OutOfRange(data, data.root) THEN [panic |-> TRUE]
    ELSE LET t == data.at[data.root]
             vector == Slot(t, 2, 0)
             boundary == deserializeVector(data, Slot(t, 1, 0))
             objects == IF vector = 0 THEN [panic |-> FALSE, objects |-> <<>>]
                        ELSE IF OutOfRange(data, vector) THEN [panic |-> TRUE]
                        ELSE deserializeObjects(data, data.at[vector].elems, <<>>)
         IN IF objects.panic \/ boundary.panic THEN [panic |-> TRUE]
            ELSE [panic |-> FALSE,
                  world |-> [nil |-> FALSE, Gravity |-> Slot(t, 0, 0), Boundary |-> boundary.v,
                             Objects |-> objects.objects]]

\* ImpulseT.Pack of the generated object API, and its like for Object and
\* World: a writer that creates every struct inside its table, right before
\* the slot that takes it
NilVector == [nil |-> TRUE]
\* a field that holds its default is not written
NonDefault(slots) == [s \in {t \in DOMAIN slots : slots[t] # 0} |-> slots[s]]
PackVector(vec) == [kind |-> "struct", X |-> vec.X, Y |-> vec.Y]

\* the table of a node: the direction inside it, the table of the next node
\* written before it
PackedImpulseTable(b, impulse) ==
    [b EXCEPT !.off = @ + 32,
              !.at = WithItem(WithItem(@, b.off + 16, PackVector(impulse.Direction)),
                              b.off + 32,
                              [kind |-> "table",
                               slots |-> NonDefault(0 :> b.off + 16 @@ 1 :> impulse.Damping
                                                    @@ 2 :> Local(b, 0))]),
              !.locals = Append(SubSeq(@, 1, Len(@) - 1), b.off + 32)]

RECURSIVE PackImpulse(_, _)
PackImpulse(b, chain) ==
    IF chain = <<>> THEN Returned(b, 0, 0)
    ELSE PackedImpulseTable(PackImpulse(b, Tail(chain)), Head(chain))

\* the table of an object with its four vectors inside it, the chain written
\* before it
PackedObjectTable(b, obj) ==
    [b EXCEPT !.off = @ + 96,
              !.at = WithItem(
                        WithItem(
                           WithItem(
                              WithItem(
                                 WithItem(@, b.off + 16, PackVector(obj.Size)),
                                 b.off + 32, PackVector(obj.Velocity)),
                              b.off + 48, PackVector(obj.Position)),
                           b.off + 64, PackVector(obj.Anchor)),
                        b.off + 96,
                        [kind |-> "table",
                         slots |-> NonDefault(0 :> obj.ID @@ 1 :> TypeCode(obj.Type)
                                              @@ 2 :> (IF obj.Client THEN 1 ELSE 0)
                                              @@ 3 :> b.off + 16 @@ 4 :> b.off + 32
                                              @@ 5 :> b.off + 48 @@ 6 :> b.off + 64
                                              @@ 7 :> obj.GravityFactor @@ 8 :> Local(b, 0))]),
              !.locals = Append(SubSeq(@, 1, Len(@) - 1), b.off + 96)]

PackObject(b, obj) == PackedObjectTable(PackImpulse(b, obj.Impulses), obj)

RECURSIVE PackObjects(_, _)
PackObjects(b, list) ==
    IF list = <<>> THEN b ELSE PackObjects(PackObject(b, Head(list)), Tail(list))

\* the table of the World, the vector of the objects written before it
PackedWorldTable(b, gravity, boundary) ==
    [b EXCEPT !.off = @ + 32,
              !.at = WithItem(IF boundary = NilVector THEN @
                              ELSE WithItem(@, b.off + 16, PackVector(boundary)),
                              b.off + 32,
                              [kind |-> "table",
                               slots |-> NonDefault(0 :> gravity
                                                    @@ 1 :> (IF boundary = NilVector THEN 0
                                                             ELSE b.off + 16)
                                                    @@ 2 :> Local(b, 0))])]

\* the buffer for a gravity, a boundary (or none) and a list of objects
PackWorld(gravity, boundary, list) ==
    FinishedBytes(PackedWorldTable(EndVector(PackObjects(NewBuilder, list)),
                                   gravity, boundary)).data

\* the first bytes of a buffer: the items written first sit at its end
Truncated(data, lost) ==
    [data EXCEPT !.len = @ - lost,
                 !.at = [o \in {p \in DOMAIN data.at : p > lost} |-> data.at[o]]]

TwoNodes ==
    <<[Direction |-> Vec(10 * Unit, 0), Damping |-> (9 * Unit) \div 10],
      [Direction |-> Vec(0, -Unit), Damping |-> Unit]>>
CodecBoundary == Vec(100 * Unit, 100 * Unit)
CodecGravity == (98 * Unit) \div 10

\* buffers of a writer that follows the schema
GoodBuffers ==
    {PackWorld(CodecGravity, CodecBoundary, <<>>),
     PackWorld(0, CodecBoundary, <<[Obj(1, "Creature") EXCEPT !.Impulses = TwoNodes],
                                   [Obj(2, "Effect") EXCEPT !.Client = TRUE]>>),
     PackWorld(CodecGravity, CodecBoundary, <<Obj(1, "Creature"), Obj(1, "Item"), Obj(0, "Other")>>)}

\* no data: a nil slice and a slice of length 0
EmptyBuffers == {[nil |-> TRUE, len |-> 0, root |-> 0, at |-> <<>>],
                 [nil |-> FALSE, len |-> 0, root |-> 0, at |-> <<>>]}

\* buffers cut short, three bytes of anything, and a World without a boundary
MalformedBuffers ==
    {Truncated(data, lost) : data \in GoodBuffers, lost \in {4, 40}}
       \cup {[nil |-> FALSE, len |-> 3, root |-> 0, at |-> <<>>],
             PackWorld(CodecGravity, NilVector, <<>>)}

ReceivedBuffers == GoodBuffers \cup EmptyBuffers \cup MalformedBuffers

\* the Worlds the engine is given under SpecCodec
CodecWorlds ==
    {NewWorld(0, CodecBoundary), NewWorld(CodecGravity, CodecBoundary),
     [NewWorld(0, CodecBoundary) EXCEPT
         !.Objects = (1 :> [Obj(1, "Creature") EXCEPT !.Impulses = TwoNodes])]}

NoCodec == [op |-> "none"]

\* GetWorldBytes after singleton.GetWorld(): world.ToBytes(), whose panic
\* ends the call
WorldToBytes(c) ==
    /\ pc[c] = "convert"
    /\ held[c] = -1
    /\ LET r == serializeWorldToBytes(world)
       IN IF r.panic
          THEN /\ codec' = [op |-> "encode", of |-> world, panic |-> TRUE]
               /\ pc' = [pc EXCEPT ![c] = "panicked"]
          ELSE /\ codec' = [op |-> "encode", of |-> world, panic |-> FALSE, data |-> r.data]
               /\ pc' = [pc EXCEPT ![c] = "idle"]
    /\ held' = [held EXCEPT ![c] = 0]
    /\ UNCHANGED <<engineVars, mutex, chanVars, now, arg, taskVars, budget, ghostVars>>
    /\ UNCHANGED heap

\* deserializeWorldFromBytes of the bytes ToBytes has just returned
DecodeEncoded ==
    /\ codec.op = "encode"
    /\ ~codec.panic
    /\ codec' = [op |-> "decode", of |-> codec.of, data |-> codec.data,
                 out |-> deserializeWorldFromBytes(codec.data)]
    /\ UNCHANGED <<engineVars, mutex, chanVars, now, pc, arg, held, taskVars, budget, ghostVars>>
    /\ UNCHANGED heap

\* deserializeWorldFromBytes of bytes from elsewhere
DecodeReceived(data) ==
    /\ codec' = [op |-> "decode", of |-> NoWorld, data |-> data,
                 out |-> deserializeWorldFromBytes(data)]
    /\ UNCHANGED <<engineVars, mutex, chanVars, now, pc, arg, held, taskVars, budget, ghostVars>>
    /\ UNCHANGED heap

InitCodec == InitEngine /\ budget = MaxCodecCalls

StoreCodecWorld(c) == \E w \in CodecWorlds : SetWorldBody(c, w, 0)

NextCodec ==
    \/ \E c \in Writers, op \in WriteOps \ {"Run", "Stop"} : WriteCall(c, op)
    \/ \E c \in Writers, gravity \in Gravities, boundary \in Boundaries :
          CreateWorldBody(c, gravity, boundary)
    \/ \E c \in Writers : StoreCodecWorld(c)
    \/ \E c \in Writers : Extrapolate(c)
    \/ \E c \in Writers, obj \in Objs : UpsertObjectBody(c, obj)
    \/ \E c \in Writers, objects \in ObjLists : UpsertObjectsBody(c, objects)
    \/ \E c \in Writers, id \in Ids, direction \in Directions, damping \in Dampings :
          AddImpulseBody(c, id, direction, damping)
    \/ \E c \in Writers, id \in Ids, v \in Vectors : SetVelocityBody(c, id, v)
    \/ \E c \in Writers, id \in Ids, v \in Vectors : SetPositionBody(c, id, v)
    \/ \E c \in Writers, id \in Ids, v \in Vectors : SetAnchorBody(c, id, v)
    \/ \E c \in Writers, id \in Ids : RemoveObjectBody(c, id)
    \/ \E c \in Writers, ids \in IdLists : RemoveObjectsBody(c, ids)
    \/ \E c \in Readers : ReadCall(c, "GetWorldBytes")
    \/ \E c \in Readers : GetWorldPtrBody(c)
    \/ \E c \in Readers : WorldToBytes(c)
    \/ DecodeEncoded
    \/ \E data \in ReceivedBuffers : DecodeReceived(data)

SpecCodec == InitCodec /\ [][NextCodec]_vars

\* ------------------------------------------------------------- the C heap
\* GetWorldPtr, GetObjectPtr and the Free...Ptr calls of the C binding.  An
\* address is a number of bytes, 0 is NULL; malloc hands out fresh addresses.
SizeofImpulse == 32                   \* Vector, double, pointer
SizeofObject == 96                    \* int32, enum, uint8, four Vectors, double, pointer
SizeofWorld == 40                     \* double, Vector, pointer, int32

\* C.malloc(size): a new block; its address is h.next before the call
malloc(h, size) ==
    [h EXCEPT !.next = @ + size,
              !.live = @ \cup {[base |-> h.next, size |-> size]},
              !.built = @ \cup {h.next}]

\* the address lies in a block that malloc returned and free has not taken
InLiveBlock(h, a) == \E b \in h.live : b.base <= a /\ a < b.base + b.size
\* the address is one that malloc returned and free has not taken
IsLiveBlock(h, a) == \E b \in h.live : b.base = a

\* a read through the pointer p: undefined when the block is freed
Load(h, p) ==
    IF h.aborted \/ InLiveBlock(h, p) THEN h ELSE [h EXCEPT !.undefined = TRUE]

\* C.free(p): undefined for an address inside a block and for an address
\* free has taken already; an allocator that detects it aborts the process
free(h, p) ==
    IF h.aborted THEN h
    ELSE IF IsLiveBlock(h, p)
    THEN [h EXCEPT !.freed = Append(@, p), !.live = {b \in @ : b.base # p}]
    ELSE [h EXCEPT !.freed = Append(@, p), !.undefined = TRUE, !.aborted = h.detects]

\* the fields of the C.Impulse at address a, Next being what the recursive
\* call returned
ImpulseStruct(h, a, impulse) ==
    [h EXCEPT !.at = WithItem(@, a, [Direction |-> impulse.Direction,
                                     Damping |-> impulse.Damping, Next |-> h.ret]),
              !.ret = a]

\* _convertImpulsesToC: the node is allocated before the rest of the chain
RECURSIVE _convertImpulsesToC(_, _)
_convertImpulsesToC(h, chain) ==
    IF chain = <<>> THEN [h EXCEPT !.ret = 0]
    ELSE ImpulseStruct(_convertImpulsesToC(malloc(h, SizeofImpulse), Tail(chain)),
                       h.next, Head(chain))

\* the fields of the C.Object at address a, Impulses being what
\* _convertImpulsesToC returned
ObjectStruct(h, a, obj) ==
    [h EXCEPT !.at = WithItem(@, a, [ID |-> Int32(obj.ID), Type |-> obj.Type,
                                     Client |-> obj.Client, Size |-> obj.Size,
                                     Velocity |-> obj.Velocity, Position |-> obj.Position,
                                     Anchor |-> obj.Anchor,
                                     GravityFactor |-> obj.GravityFactor,
                                     Impulses |-> h.ret]),
              !.ret = a]

\* _convertObjectToC of an object that is not nil
_convertObjectToC(h, obj) ==
    ObjectStruct(_convertImpulsesToC(malloc(h, SizeofObject), obj.Impulses), h.next, obj)

\* cObjects[i] = *_convertObjectToC(obj): the struct is copied into the array,
\* and no pointer to the block it came from is kept
CopyObject(h, dst) == [h EXCEPT !.at = WithItem(@, dst, h.at[h.ret])]

\* the loop of _convertWorldToC over world.Objects, in the order of the range
RECURSIVE ConvertObjects(_, _, _, _, _)
ConvertObjects(h, objects, order, cObjects, i) ==
    IF order = <<>> THEN h
    ELSE ConvertObjects(CopyObject(_convertObjectToC(h, objects[Head(order)]),
                                   cObjects + i * SizeofObject),
                        objects, Tail(order), cObjects, i + 1)

\* the fields of the C.World at address a
WorldStruct(h, a, w, cObjects) ==
    [h EXCEPT !.at = WithItem(@, a, [Gravity |-> w.Gravity, Boundary |-> w.Boundary,
                                     Objects |-> cObjects,
                                     ObjectCount |-> Cardinality(DOMAIN w.Objects)]),
              !.ret = a]

\* _convertWorldToC of a World that is not nil
_convertWorldToC(h, w, order) ==
    IF Cardinality(DOMAIN w.Objects) > 0
    THEN WorldStruct(
            ConvertObjects(
               malloc(malloc(h, SizeofWorld), Cardinality(DOMAIN w.Objects) * SizeofObject),
               w.Objects, order, h.next + SizeofWorld, 0),
            h.next, w, h.next + SizeofWorld)
    ELSE WorldStruct(malloc(h, SizeofWorld), h.next, w, 0)

\* _freeImpulse: the rest of the chain, then the node
RECURSIVE _freeImpulse(_, _)
_freeImpulse(h, cImpulse) ==
    IF cImpulse = 0 THEN h
    ELSE free(_freeImpulse(Load(h, cImpulse), h.at[cImpulse].Next), cImpulse)

\* _freeObject: the chain, then the address of the object
_freeObject(h, cObj) ==
    IF cObj = 0 THEN h
    ELSE free(_freeImpulse(Load(h, cObj), h.at[cObj].Impulses), cObj)

\* the loop of _freeWorld: _freeObject(&cObjects[i])
RECURSIVE FreeObjects(_, _, _, _)
FreeObjects(h, cObjects, count, i) ==
    IF i >= count THEN h
    ELSE FreeObjects(_freeObject(h, cObjects + i * SizeofObject), cObjects, count, i + 1)

\* _freeWorld: the objects of the array, the array, the world
_freeWorld(h, cWorld) ==
    IF cWorld = 0 THEN h
    ELSE free(IF h.at[cWorld].Objects # 0 /\ h.at[cWorld].ObjectCount > 0
              THEN free(FreeObjects(h, h.at[cWorld].Objects, h.at[cWorld].ObjectCount, 0),
                        h.at[cWorld].Objects)
              ELSE h,
              cWorld)

\* the heap when a conversion starts: the caller holds no pointer
Building(h) ==
    [h EXCEPT !.op = "convert", !.built = {}, !.owed = {}, !.freed = <<>>,
              !.made = @ + 1]
\* the heap when the conversion has returned h.ret to the caller: h.built are
\* the blocks of the value the caller holds
Built(h, kind) == [h EXCEPT !.ptr = h.ret, !.kind = kind]
\* the heap when the call op (a Free...Ptr) starts on a value made of the
\* blocks owed, with an allocator that detects an invalid free or one that
\* does not
Freeing(h, op, owed, detects) ==
    [h EXCEPT !.op = op, !.owed = owed, !.freed = <<>>, !.detects = detects]
\* the heap when the caller has dropped the pointer it passed
Dropped(h) == [h EXCEPT !.ptr = 0, !.kind = "none", !.built = {}]

\* GetWorldPtr after singleton.GetWorld(): _convertWorldToC(world)
ConvertWorldToC(c) ==
    /\ pc[c] = "convert"
    /\ held[c] = -1
    /\ \E order \in VisitOrders(world) :
          heap' = Built(_convertWorldToC(Building(heap), world, order), "world")
    /\ pc' = [pc EXCEPT ![c] = "idle"]
    /\ held' = [held EXCEPT ![c] = 0]
    /\ UNCHANGED <<engineVars, mutex, chanVars, now, arg, taskVars, budget, ghostVars>>
    /\ UNCHANGED codec

\* GetObjectPtr after singleton.GetObject(id): _convertObjectToC(goObj)
ConvertObjectToC(c) ==
    /\ pc[c] = "convert"
    /\ held[c] \in DOMAIN world.Objects
    /\ heap' = Built(_convertObjectToC(Building(heap), world.Objects[held[c]]), "object")
    /\ pc' = [pc EXCEPT ![c] = "idle"]
    /\ held' = [held EXCEPT ![c] = 0]
    /\ UNCHANGED <<engineVars, mutex, chanVars, now, arg, taskVars, budget, ghostVars>>
    /\ UNCHANGED codec

HeapOnly ==
    /\ UNCHANGED <<engineVars, mutex, chanVars, now, pc, arg, held, taskVars, budget, ghostVars>>
    /\ UNCHANGED codec

\* FreeWorldPtr(w) of the pointer GetWorldPtr returned
FreeWorldPtr ==
    /\ heap.kind = "world"
    /\ \E detects \in BOOLEAN :
          heap' = Dropped(_freeWorld(Freeing(heap, "FreeWorldPtr", heap.built, detects),
                                     heap.ptr))
    /\ HeapOnly

\* FreeObjectPtr(obj) of the pointer GetObjectPtr returned
FreeObjectPtr ==
    /\ heap.kind = "object"
    /\ \E detects \in BOOLEAN :
          heap' = Dropped(_freeObject(Freeing(heap, "FreeObjectPtr", heap.built, detects),
                                      heap.ptr))
    /\ HeapOnly

\* the caller takes the chain off the object GetObjectPtr returned, and passes
\* it to FreeImpulsePtr
Detached(h) == [h EXCEPT !.at[h.ptr].Impulses = 0, !.built = {h.ptr}]
FreeImpulsePtr ==
    /\ heap.kind = "object"
    /\ heap.at[heap.ptr].Impulses # 0
    /\ \E detects \in BOOLEAN :
          heap' = _freeImpulse(Freeing(Detached(heap), "FreeImpulsePtr",
                                       heap.built \ {heap.ptr}, detects),
                               heap.at[heap.ptr].Impulses)
    /\ HeapOnly

\* the Worlds the engine is given under SpecHeap: no object, one object with a
\* chain of two nodes, two objects
HeapWorlds ==
    {NewWorld(Unit, PhysBoundary),
     [NewWorld(Unit, PhysBoundary) EXCEPT
         !.Objects = (1 :> [Obj(1, "Creature") EXCEPT !.Impulses = TwoNodes])],
     [NewWorld(Unit, PhysBoundary) EXCEPT
         !.Objects = (1 :> Obj(1, "Creature"))
                     @@ (2 :> [Obj(2, "Effect") EXCEPT !.Impulses = <<TwoNodes[1]>>])]}

InitHeap == InitEngine /\ budget = MaxHeapCalls

StoreHeapWorld(c) == \E w \in HeapWorlds : SetWorldBody(c, w, 0)

\* the caller asks for a pointer when it holds none; a process that was
\* aborted makes no call
MayConvert == heap.kind = "none" /\ ~heap.aborted /\ heap.made < MaxConversions

\* one thread makes every call, as a C program that owns the engine does
NextHeap ==
    \/ \E c \in Writers : WriteCall(c, "SetWorld")
    \/ \E c \in Writers : StoreHeapWorld(c)
    \/ \E c \in Writers, op \in {"GetWorldPtr", "GetObjectPtr"} : MayConvert /\ ReadCall(c, op)
    \/ \E c \in Writers : GetWorldPtrBody(c)
    \/ \E c \in Writers, id \in Ids : GetObjectPtrBody(c, id)
    \/ \E c \in Writers : ConvertWorldToC(c)
    \/ \E c \in Writers : ConvertObjectToC(c)
    \/ FreeWorldPtr
    \/ FreeObjectPtr
    \/ FreeImpulsePtr

SpecHeap == InitHeap /\ [][NextHeap]_vars

\* ------------------------------------------------------ the earlier engine
\* The engine with the Particle flag and one update routine: its objects are
\* [ID, Size, Velocity, Position, GravityFactor, Impulses, Particle].  Stop,
\* RemoveObjects and the two goroutines read as they do in the later engine.
EarlyObj(id) ==
    [ID |-> id, Size |-> Vec(2 * Unit, 2 * Unit), Velocity |-> Vec(0, 0),
     Position |-> Vec(5 * Unit, 0), GravityFactor |-> 0, Impulses |-> <<>>,
     Particle |-> FALSE]
EarlyWorlds ==
    {[NewWorld(Unit, PhysBoundary) EXCEPT !.Objects = (1 :> EarlyObj(1))]}
EarlyDampings == {0, Unit \div 2}
EarlyTicks == {Unit}
EarlyRtts == {0, 2 * Unit}

\* onTheFloor of the earlier engine
EarlyOnTheFloor(obj) == Abs(obj.Position.Y) < negligibleFloat

\* clamp
EarlyClamp(val, minValue, maxValue) ==
    IF val < minValue THEN minValue ELSE IF val > maxValue THEN maxValue ELSE val

\* applyImpulses: an object on the floor stops a small vertical impulse
EarlyBumped(obj, node) ==
    IF EarlyOnTheFloor(obj) /\ Abs(node.Direction.Y) < negligibleFloat
    THEN [node EXCEPT !.Direction.Y = 0]
    ELSE node

\* applyImpulses: the direction of the node after the damping
EarlyDamped(node, elapsed) ==
    IF node.Damping <= negligibleFloat THEN [node EXCEPT !.Direction = Vec(0, 0)]
    ELSE IF node.Damping = Unit THEN node
    ELSE [node EXCEPT !.Direction = Vec(Mul(@.X, Pow(node.Damping, elapsed)),
                                        Mul(@.Y, Pow(node.Damping, elapsed)))]

\* applyImpulses: a node that has decayed is taken out of the list; obj.Impulses
\* holds the nodes kept so far
EarlyKept(obj, node) ==
    IF Negligible(node.Direction) THEN obj ELSE [obj EXCEPT !.Impulses = Append(@, node)]

\* applyImpulses: one turn of the loop
EarlyTurn(obj, node, elapsed) ==
    EarlyKept([obj EXCEPT !.Velocity = Vec(@.X + Mul(node.Direction.X, elapsed),
                                         @.Y + Mul(node.Direction.Y, elapsed))],
              EarlyDamped(node, elapsed))

RECURSIVE EarlyWalk(_, _, _)
EarlyWalk(obj, rest, elapsed) ==
    IF rest = <<>> THEN obj
    ELSE EarlyWalk(EarlyTurn(obj, EarlyBumped(obj, Head(rest)), elapsed), Tail(rest), elapsed)

\* applyImpulses
EarlyApplyImpulses(obj, elapsed) ==
    IF elapsed <= 0 THEN obj
    ELSE EarlyWalk([obj EXCEPT !.Impulses = <<>>], obj.Impulses, elapsed)

\* update: gravity, not scaled by the time
EarlyGravity(obj, w) ==
    IF obj.GravityFactor # 0
    THEN [obj EXCEPT !.Velocity.Y = @ + Mul(-w.Gravity, obj.GravityFactor)]
    ELSE obj

\* update: the position follows the velocity
EarlyMoved(obj, elapsed) ==
    [obj EXCEPT !.Position = Vec(@.X + Mul(obj.Velocity.X, elapsed),
                                 @.Y + Mul(obj.Velocity.Y, elapsed))]

\* update: an object on the floor that does not rise stops
EarlyLanded(obj) ==
    IF EarlyOnTheFloor(obj) /\ obj.Velocity.Y < negligibleFloat
    THEN [obj EXCEPT !.Velocity.Y = 0]
    ELSE obj

\* update: what is not a particle stays inside the world
EarlyBounded(obj, w) ==
    IF obj.Particle THEN obj
    ELSE EarlyLanded(
            [obj EXCEPT !.Position =
                Vec(EarlyClamp(@.X, obj.Size.X \div 2, w.Boundary.X - obj.Size.X \div 2),
                    EarlyClamp(@.Y, 0, w.Boundary.Y - obj.Size.Y))])

EarlyUpdateObject(obj, w, elapsed) ==
    EarlyBounded(EarlyMoved(EarlyApplyImpulses(EarlyGravity(obj, w), elapsed), elapsed), w)

\* update of the earlier engine; an object is updated from its own fields and
\* the fields of the World only
EarlyUpdate(w, elapsed) ==
    IF elapsed <= 0 THEN w
    ELSE IF w.nil THEN w
    ELSE [w EXCEPT !.Objects = [id \in DOMAIN @ |-> EarlyUpdateObject(@[id], w, elapsed)]]

\* SetWorld of the earlier engine: update(rtt / 2)
EarlySetWorldBody(c, w, rtt) ==
    /\ pc[c] = "SetWorld"
    /\ Return(c)
    /\ world' = (IF rtt > 0 THEN EarlyUpdate(w, rtt \div 2) ELSE w)
    /\ lastUpdate' = now
    /\ held' = DropWorldRefs
    /\ sinceSetWorld' = TRUE
    /\ runClock' = 0
    /\ sumElapsed' = 0
    /\ UNCHANGED <<running, stopChannel, updateSignal, updateTicker, chanVars, now, arg,
                   taskVars, budget>>
    /\ UNCHANGED <<codec, heap>>

\* Run of the earlier engine under the lock: the Unlock comes before
\* lastUpdate and updateTicker are assigned
EarlyRunBody(c) ==
    /\ pc[c] = "Run"
    /\ mutex' = Unlocked
    /\ IF RunIsNoOp
       THEN /\ pc' = [pc EXCEPT ![c] = "idle"]
            /\ arg' = [arg EXCEPT ![c] = 0]
            /\ UNCHANGED <<running, stopChannel, updateSignal, made>>
       ELSE /\ running' = TRUE
            /\ stopChannel' = made + 1
            /\ updateSignal' = made + 1
            /\ made' = made + 1
            /\ pc' = [pc EXCEPT ![c] = "Run.unlocked"]
            /\ UNCHANGED arg
    /\ UNCHANGED <<world, updateTicker, lastUpdate, closed, sigLen, tickerPeriod,
                   tickerStopped, tickerC, now, held, taskVars, budget, ghostVars>>
    /\ UNCHANGED <<codec, heap>>

\* Run of the earlier engine after the Unlock: lastUpdate, the ticker and the
\* two goroutines; time.NewTicker panics for a period of zero
EarlyRunStart(c) ==
    /\ pc[c] = "Run.unlocked"
    /\ lastUpdate' = now
    /\ runClock' = now
    /\ sumElapsed' = 0
    /\ sinceSetWorld' = FALSE
    /\ IF TickDuration(arg[c]) <= 0
       THEN /\ pc' = [pc EXCEPT ![c] = "panicked"]
            /\ UNCHANGED <<updateTicker, tickerPeriod, taskVars>>
       ELSE /\ updateTicker' = made
            /\ tickerPeriod' = [tickerPeriod EXCEPT ![made] = TickDuration(arg[c])]
            /\ pc' = [pc EXCEPT ![c] = "idle"]
            /\ timer' = [timer EXCEPT ![made].pc = "start"]
            /\ worker' = [worker EXCEPT ![made].pc = "select"]
    /\ arg' = [arg EXCEPT ![c] = 0]
    /\ UNCHANGED <<world, mutex, running, stopChannel, updateSignal, made, closed, sigLen,
                   tickerStopped, tickerC, now, held, budget>>
    /\ UNCHANGED <<codec, heap>>

EarlyMutators == {"AddImpulse", "SetVelocity", "SetPosition"}
\* the position of a caller inside engine.GetObject(id), called by op
InGetObject(op) ==
    CASE op = "AddImpulse" -> "AddImpulse.GetObject"
      [] op = "SetVelocity" -> "SetVelocity.GetObject"
      [] op = "SetPosition" -> "SetPosition.GetObject"
\* the position of a caller that holds the pointer GetObject returned
AfterGetObject(op) ==
    CASE op = "AddImpulse" -> "AddImpulse.obj"
      [] op = "SetVelocity" -> "SetVelocity.obj"
      [] op = "SetPosition" -> "SetPosition.obj"

\* AddImpulse, SetVelocity and SetPosition of the earlier engine begin with
\* engine.GetObject(id): RLock
EarlyCall(c, op) ==
    /\ pc[c] = "idle"
    /\ budget > 0
    /\ CanRLock
    /\ mutex' = [mutex EXCEPT !.readers = @ \cup {c}]
    /\ pc' = [pc EXCEPT ![c] = InGetObject(op)]
    /\ budget' = budget - 1
    /\ UNCHANGED <<engineVars, chanVars, now, arg, held, taskVars, ghostVars>>
    /\ UNCHANGED <<codec, heap>>

\* engine.GetObject(id) returns and releases the read lock; the mutator
\* returns when the pointer is nil
EarlyGetObject(c, op, id) ==
    /\ pc[c] = InGetObject(op)
    /\ mutex' = RUnlocked(c)
    /\ IF getObject(id) = <<>>
       THEN /\ pc' = [pc EXCEPT ![c] = "idle"]
            /\ UNCHANGED held
       ELSE /\ pc' = [pc EXCEPT ![c] = AfterGetObject(op)]
            /\ held' = [held EXCEPT ![c] = id]
    /\ UNCHANGED <<engineVars, chanVars, now, arg, taskVars, budget, ghostVars>>
    /\ UNCHANGED <<codec, heap>>

\* the World after a write through the pointer the caller holds: an object
\* that was removed or replaced meanwhile is not in the World any more
WrittenThrough(c, obj) ==
    IF held[c] = 0 THEN world ELSE [world EXCEPT !.Objects[held[c]] = obj]
\* the object the caller's pointer refers to
Pointee(c) == IF held[c] = 0 THEN EarlyObj(0) ELSE world.Objects[held[c]]

\* obj.Velocity = velocity, with no lock
EarlySetVelocity(c, velocity) ==
    /\ pc[c] = AfterGetObject("SetVelocity")
    /\ world' = WrittenThrough(c, [Pointee(c) EXCEPT !.Velocity = velocity])
    /\ pc' = [pc EXCEPT ![c] = "idle"]
    /\ held' = [held EXCEPT ![c] = 0]
    /\ UNCHANGED <<mutex, running, stopChannel, updateSignal, updateTicker, lastUpdate,
                   chanVars, now, arg, taskVars, budget, ghostVars>>
    /\ UNCHANGED <<codec, heap>>

\* obj.Position = position, with no lock
EarlySetPosition(c, position) ==
    /\ pc[c] = AfterGetObject("SetPosition")
    /\ world' = WrittenThrough(c, [Pointee(c) EXCEPT !.Position = position])
    /\ pc' = [pc EXCEPT ![c] = "idle"]
    /\ held' = [held EXCEPT ![c] = 0]
    /\ UNCHANGED <<mutex, running, stopChannel, updateSignal, updateTicker, lastUpdate,
                   chanVars, now, arg, taskVars, budget, ghostVars>>
    /\ UNCHANGED <<codec, heap>>

\* AddImpulse: engine.mutex.Lock() after GetObject has returned
EarlyAddImpulseLock(c) ==
    /\ pc[c] = AfterGetObject("AddImpulse")
    /\ CanLock
    /\ mutex' = [mutex EXCEPT !.writer = c]
    /\ pc' = [pc EXCEPT ![c] = "AddImpulse"]
    /\ UNCHANGED <<engineVars, chanVars, now, arg, held, taskVars, budget, ghostVars>>
    /\ UNCHANGED <<codec, heap>>

\* the object after AddImpulse
EarlyImpelled(obj, direction, damping) ==
    IF damping <= negligibleFloat
    THEN [obj EXCEPT !.Velocity = Vec(@.X + direction.X, @.Y + direction.Y)]
    ELSE [obj EXCEPT !.Impulses = <<[Direction |-> direction, Damping |-> damping]>> \o @]

\* AddImpulse under the lock, on the pointer it got before the lock
EarlyAddImpulseBody(c, direction, damping) ==
    /\ pc[c] = "AddImpulse"
    /\ Return(c)
    /\ world' = WrittenThrough(c, EarlyImpelled(Pointee(c), direction, damping))
    /\ held' = [held EXCEPT ![c] = 0]
    /\ UNCHANGED <<running, stopChannel, updateSignal, updateTicker, lastUpdate, chanVars,
                   now, arg, taskVars, budget, ghostVars>>
    /\ UNCHANGED <<codec, heap>>

\* the pass of the worker of the earlier engine
EarlyWorkerPass(g) ==
    /\ worker[g].pc = "pass"
    /\ world' = EarlyUpdate(world, Elapsed * Unit)
    /\ lastUpdate' = now
    /\ sumElapsed' = IF sinceSetWorld THEN 0 ELSE sumElapsed + Elapsed
    /\ worker' = [worker EXCEPT ![g].pc = "select"]
    /\ mutex' = Unlocked
    /\ UNCHANGED <<running, stopChannel, updateSignal, updateTicker, chanVars, now, pc, arg,
                   held, timer, budget, runClock, sinceSetWorld>>
    /\ UNCHANGED <<codec, heap>>

InitEarly == InitEngine /\ budget = MaxEarlyCalls

\* thread 1 sets the World and runs the engine, thread 2 stops it and calls
\* the mutators
NextEarly ==
    \/ \E c \in Writers, op \in {"SetWorld", "RemoveObjects"} : WriteCall(c, op)
    \/ \E c \in Writers, tickMS \in EarlyTicks : RunCall(c, tickMS)
    \/ \E c \in Readers : StopCall(c)
    \/ \E c \in Readers, op \in EarlyMutators : EarlyCall(c, op)
    \/ \E c \in Writers, w \in EarlyWorlds, rtt \in EarlyRtts : EarlySetWorldBody(c, w, rtt)
    \/ \E c \in Writers, ids \in IdLists : RemoveObjectsBody(c, ids)
    \/ \E c \in Writers : EarlyRunBody(c)
    \/ \E c \in Writers : EarlyRunStart(c)
    \/ \E c \in Readers : StopBody(c)
    \/ \E c \in Readers, op \in EarlyMutators, id \in Ids : EarlyGetObject(c, op, id)
    \/ \E c \in Readers, v \in Vectors : EarlySetVelocity(c, v)
    \/ \E c \in Readers, v \in Vectors : EarlySetPosition(c, v)
    \/ \E c \in Readers : EarlyAddImpulseLock(c)
    \/ \E c \in Readers, direction \in Directions, damping \in EarlyDampings :
          EarlyAddImpulseBody(c, direction, damping)
    \/ \E g \in Gens : TimerStart(g)
    \/ \E g \in Gens : TimerSelect(g)
    \/ \E g \in Gens : TimerTick(g)
    \/ \E g \in Gens : TimerPost(g)
    \/ \E g \in Gens : TimerStop(g)
    \/ \E g \in Gens : WorkerSelect(g)
    \/ \E g \in Gens : WorkerSignal(g)
    \/ \E g \in Gens : WorkerStop(g)
    \/ \E g \in Gens : WorkerLock(g)
    \/ \E g \in Gens : EarlyWorkerPass(g)
    \/ \E g \in Gens : TickerFire(g)
    \/ ClockTick

SpecEarly == InitEarly /\ [][NextEarly]_vars

\* ------------------------------------------------------- the object table
\* The calls that add and remove objects, on a World of three objects, with a
\* second thread that calls GetObject.
TableIds == {1, 2, 3}
TableWorlds ==
    {[NewWorld(Unit, PhysBoundary) EXCEPT
         !.Objects = (1 :> Obj(1, "Creature")) @@ (2 :> Obj(2, "Effect"))
                     @@ (3 :> [Obj(3, "Item") EXCEPT !.Velocity = Vec(Unit, 0)])]}
\* lists of ids to remove: two ids, an id twice, an id that may be gone, none
RemovedLists == {<<1, 2>>, <<2, 2>>, <<3>>, <<>>}
UpsertedLists == {<<Obj(1, "Terrain")>>, <<Obj(2, "Item"), Obj(3, "Other")>>}

InitTable == InitEngine /\ budget = MaxTableCalls

StoreTableWorld(c) == \E w \in TableWorlds : SetWorldBody(c, w, 0)

NextTable ==
    \/ \E c \in Writers, op \in {"SetWorld", "UpsertObjects", "RemoveObject", "RemoveObjects",
                                 "SetPosition"} : WriteCall(c, op)
    \/ \E c \in Writers : StoreTableWorld(c)
    \/ \E c \in Writers, objects \in UpsertedLists : UpsertObjectsBody(c, objects)
    \/ \E c \in Writers, id \in TableIds : RemoveObjectBody(c, id)
    \/ \E c \in Writers, ids \in RemovedLists : RemoveObjectsBody(c, ids)
    \/ \E c \in Writers, id \in TableIds, v \in Vectors : SetPositionBody(c, id, v)
    \/ \E c \in Readers : ReadCall(c, "GetObject")
    \/ \E c \in Readers : GetBody(c)

SpecTable == InitTable /\ [][NextTable]_vars

\* The life cycle with Worlds whose object table may hold a nil entry
FailWorlds ==
    {[NewWorld(Unit, Vec(10 * Unit, 10 * Unit)) EXCEPT
         !.Objects = (1 :> [Obj(1, "Creature") EXCEPT !.Position = Vec(5 * Unit, Unit),
                                                         !.Velocity = Vec(0, -Unit),
                                                         !.GravityFactor = 0])
                     @@ (2 :> NilObject)]}

NextFail ==
    \/ \E c \in Writers, op \in {"SetWorld"} : WriteCall(c, op)
    \/ \E c \in Writers : StopCall(c)
    \/ \E c \in Writers, tickMS \in TickValues : RunCall(c, tickMS)
    \/ \E c \in Writers : StopBody(c)
    \/ \E c \in Writers : RunBody(c)
    \/ \E c \in Writers, w \in Worlds \cup FailWorlds, rtt \in RttValues : SetWorldBody(c, w, rtt)
    \/ \E g \in Gens : TimerStart(g)
    \/ \E g \in Gens : TimerSelect(g)
    \/ \E g \in Gens : TimerTick(g)
    \/ \E g \in Gens : TimerPost(g)
    \/ \E g \in Gens : TimerStop(g)
    \/ \E g \in Gens : WorkerSelect(g)
    \/ \E g \in Gens : WorkerSignal(g)
    \/ \E g \in Gens : WorkerStop(g)
    \/ \E g \in Gens : WorkerLock(g)
    \/ \E g \in Gens : WorkerPass(g)
    \/ \E g \in Gens : TickerFire(g)
    \/ ClockTick

SpecFail == InitRun /\ [][NextFail]_vars

\* The life cycle under fair scheduling: a caller inside a critical section,
\* a goroutine that can take a step and the ticker are not starved, and the
\* mutex hands the lock to a worker that keeps waiting for it.
CallerSteps(c) ==
    \/ StopBody(c)
    \/ RunBody(c)
    \/ \E w \in Worlds, rtt \in RttValues : SetWorldBody(c, w, rtt)
TimerSteps(g) ==
    TimerStart(g) \/ TimerSelect(g) \/ TimerTick(g) \/ TimerPost(g) \/ TimerStop(g)
WorkerSteps(g) ==
    WorkerSelect(g) \/ WorkerSignal(g) \/ WorkerStop(g) \/ WorkerLock(g) \/ WorkerPass(g)
Fairness ==
    /\ \A c \in Writers : WF_vars(CallerSteps(c))
    /\ \A g \in Gens : WF_vars(TimerSteps(g))
    /\ \A g \in Gens : SF_vars(WorkerSteps(g))
    /\ \A g \in Gens : WF_vars(TickerFire(g))
SpecFair == InitRun /\ [][NextLife]_vars /\ Fairness

\* ================================================================== claims

\* the tasks inside a critical section that holds the write lock
WritersInCS ==
    {c \in Callers : pc[c] \in WriteOps} \cup {WorkerId(g) : g \in {h \in Gens : worker[h].pc = "pass"}}
\* the callers inside a critical section that holds the read lock
ReadersInCS == {c \in Callers : pc[c] \in ReadOps}

\* C1: an integration pass, the API calls that write and the getters exclude
\* each other: at most one task is inside a write critical section, and no
\* getter is inside its lookup while a task is inside a write critical section.
C1_MutualExclusion ==
    /\ Cardinality(WritersInCS) <= 1
    /\ WritersInCS # {} => ReadersInCS = {}
    /\ WritersInCS = IF mutex.writer \in Callers /\ pc[mutex.writer] = "panicked"
                     THEN {} ELSE {mutex.writer} \ {0}
    /\ ReadersInCS = mutex.readers

\* a pass over a world with objects is about to integrate a positive elapsed time
C1_Witness ==
    \E g \in Gens : /\ worker[g].pc = "pass"
                    /\ ~world.nil
                    /\ DOMAIN world.Objects # {}
                    /\ Elapsed > 0

\* C2: no update-signal queue ever holds more than one marker, and a timer
\* that is about to post a marker can always take that step (the send does
\* not block).
C2_AtMostOneMarker ==
    \A g \in Gens : /\ sigLen[g] <= updateSignalCap
                    /\ timer[g].pc = "post" => ENABLED TimerPost(g)

\* a timer of the Running engine is about to post while a marker is pending
C2_Witness ==
    \E g \in Gens : /\ running
                    /\ timer[g].pc = "post"
                    /\ sigLen[updateSignal] = updateSignalCap

\* C3: the critical section of Run on an engine that is Running or has no
\* World changes no engine field, no channel, no ticker, starts no goroutine,
\* and returns with the lock released.
C3_RunNoOp ==
    [][\A c \in Writers :
          (pc[c] = "Run" /\ pc'[c] # "Run" /\ (running \/ world.nil))
          => /\ UNCHANGED <<engineVars, chanVars, taskVars>>
             /\ pc'[c] = "idle"
             /\ mutex'.writer = 0]_vars

\* Run is inside its critical section on an engine that is already Running
C3_Witness ==
    \E c \in Writers : pc[c] = "Run" /\ running /\ lastUpdate < now

\* C4: while the engine is Stopped (Stop has returned and no Run followed) no
\* worker takes an update marker to start an integration pass.
C4_NoPassAfterStop ==
    [][\A g \in Gens : ~running => ~(worker[g].pc = "wait" /\ worker'[g].pc = "lock")]_vars

\* an integration pass stores into object id
PassWrites(id) ==
    /\ \E g \in Gens : worker[g].pc = "pass"
    /\ ~world.nil
    /\ id \in DOMAIN world.Objects
    /\ world.Objects[id].Type \in MovingTypes
    /\ Elapsed > 0
\* an API call stores into the object table
TableWrites ==
    /\ \E c \in Callers : pc[c] \in {"UpsertObject", "UpsertObjects"}
    /\ ~world.nil
\* the graph behind the pointer h is being written
GraphWritten(h) ==
    IF h = -1 THEN TableWrites \/ \E id \in DOMAIN world.Objects : PassWrites(id)
    ELSE PassWrites(h)

\* C5: a consumer that got the World or an Object from GetWorld/GetObject
\* never reads it while a pass or an API call is writing it.
C5_NoReadDuringWrite ==
    \A c \in Callers : held[c] # 0 => ~GraphWritten(held[c])

\* C6: between a Run and any later moment with no SetWorld in between, the
\* elapsed values of the passes sum to last_update minus the clock value
\* recorded at Run.
C6_ElapsedSum ==
    (made > 0 /\ ~sinceSetWorld) => sumElapsed = lastUpdate - runClock

\* passes since the last Run have integrated more than one second in total
C6_Witness ==
    made > 0 /\ ~sinceSetWorld /\ sumElapsed > 1 /\ running

\* C7: at most one timer is waiting on an open stop channel, at most one
\* worker is, and every task uses only the channels and the ticker made by
\* the Run that started it.
C7_OneTimerOneWorker ==
    /\ Cardinality({g \in Gens : timer[g].pc = "wait" /\ ~closed[timer[g].st]}) <= 1
    /\ Cardinality({g \in Gens : worker[g].pc = "wait" /\ ~closed[worker[g].st]}) <= 1
    /\ \A g \in Gens : /\ timer[g].dt \in {0, g}
                       /\ timer[g].tk \in {0, g}
                       /\ timer[g].st \in {0, g}
                       /\ worker[g].us \in {0, g}
                       /\ worker[g].st \in {0, g}

\* C8: a Run call never enters its critical section with tickMS <= 0, and
\* the step in which Run panics on its tickMS check changes no engine field,
\* no channel, no ticker and no goroutine, and does not take the lock.
C8_InvalidTickPanics ==
    /\ [](\A c \in Writers : pc[c] = "Run" => arg[c] > 0)
    /\ [][\A c \in Writers :
             (pc[c] = "idle" /\ pc'[c] = "panicked")
             => /\ UNCHANGED <<engineVars, chanVars, taskVars, mutex>>
                /\ mutex.writer # c]_vars

\* Run has panicked on its tickMS check on a Running engine
C8_Witness ==
    \E c \in Writers : pc[c] = "panicked" /\ mutex.writer = 0 /\ running

\* C9: the critical section of Run on a Stopped engine that has a World ends
\* with the engine Running, a ticker with a positive period, the lock
\* released and the call returned.
C9_RunAcceptsPositive ==
    [][\A c \in Writers :
          (pc[c] = "Run" /\ pc'[c] # "Run" /\ ~running /\ ~world.nil)
          => /\ running'
             /\ updateTicker' = made'
             /\ tickerPeriod'[made'] > 0
             /\ mutex'.writer = 0
             /\ pc'[c] = "idle"]_vars

\* C10: the critical section of Stop on an engine that is not Running changes
\* no engine field, closes no channel, touches no ticker and no goroutine; and
\* no Stop ever panics (no channel is closed twice).
C10_StopNoOp ==
    [][\A c \in Writers :
          (pc[c] = "Stop" /\ pc'[c] # "Stop")
          => /\ pc'[c] = "idle"
             /\ mutex'.writer = 0
             /\ ~running => UNCHANGED <<engineVars, chanVars, taskVars>>]_vars

\* a second Stop is inside its critical section after the first one closed
\* the stop channel
C10_Witness ==
    \E c \in Writers : /\ pc[c] = "Stop"
                       /\ ~running
                       /\ stopChannel # 0
                       /\ closed[stopChannel]

\* C11: no call blocks forever on the engine lock: whenever the write lock is
\* held it is released later, so a call waiting in Lock or RLock gets it.
C11_LockReleased ==
    (mutex.writer # 0) ~> (mutex.writer = 0)

\* the id is not in the World, or there is no World
MissingId(id) == getObject(id) = <<>>

\* a step of a mutator addressed to a missing id, of an upsert without a
\* World, or of GetObject without a World
MissingStep(c) ==
    \/ \E id \in Ids, direction \in Directions, damping \in Dampings :
          MissingId(id) /\ AddImpulseBody(c, id, direction, damping)
    \/ \E id \in Ids, v \in Vectors : MissingId(id) /\ SetVelocityBody(c, id, v)
    \/ \E id \in Ids, v \in Vectors : MissingId(id) /\ SetPositionBody(c, id, v)
    \/ \E id \in Ids, v \in Vectors : MissingId(id) /\ SetAnchorBody(c, id, v)
    \/ \E id \in Ids : MissingId(id) /\ RemoveObjectBody(c, id)
    \/ \E ids \in IdLists : (\A id \in SeqRange(ids) : MissingId(id)) /\ RemoveObjectsBody(c, ids)
    \/ \E obj \in Objs : world.nil /\ UpsertObjectBody(c, obj)
    \/ \E objects \in ObjLists : world.nil /\ UpsertObjectsBody(c, objects)
    \/ world.nil /\ pc[c] = "GetObject" /\ GetBody(c)

\* C12: a mutator addressed to an id that is not in the World, and a mutator,
\* an upsert or GetObject when there is no World, returns without a panic and
\* changes no engine field (World, objects, run state, last_update), no
\* channel, no ticker and no goroutine.
C12_MissingIsNoOp ==
    [][\A c \in Callers :
          MissingStep(c) => /\ UNCHANGED <<engineVars, chanVars, taskVars>>
                            /\ pc'[c] = "idle"
                            /\ mutex'.writer = 0
                            /\ c \notin mutex'.readers]_vars

\* SetPosition is inside its critical section on a World that holds object 1
\* and not object 2, of the ids it is called with
C12_Witness ==
    \E c \in Writers : /\ pc[c] = "SetPosition"
                       /\ ~world.nil
                       /\ \E id \in Ids : MissingId(id)
                       /\ \E id \in Ids : ~MissingId(id)

\* the World w after exactly one integration pass over each of its objects
\* with elapsed = rtt, and w itself when rtt <= 0
AfterRtt(w, rtt) ==
    IF rtt > 0 /\ ~w.nil
    THEN [w EXCEPT !.Objects = [id \in DOMAIN w.Objects |-> UpdateObject(w.Objects[id], w, rtt)]]
    ELSE w

\* C13: SetWorld(w, rtt) is one step under the write lock that leaves the
\* engine holding w after exactly one pass with elapsed = rtt when rtt > 0 and
\* w as given when rtt <= 0, sets last_update to the current time, and
\* releases the lock; it changes nothing else of the engine.
C13_SetWorldReplaces ==
    [][\A c \in Writers, w \in Worlds, rtt \in RttValues :
          SetWorldBody(c, w, rtt)
          => /\ mutex.writer = c
             /\ world' = AfterRtt(w, rtt)
             /\ lastUpdate' = now'
             /\ mutex'.writer = 0
             /\ pc'[c] = "idle"
             /\ UNCHANGED <<running, stopChannel, updateSignal, updateTicker, chanVars, taskVars>>]_vars

\* a SetWorld with rtt > 0 has returned on an engine that never ran: the
\* Creature it was given at height 1 has been integrated to the floor, and
\* last_update is the current time, later than the start
C13_Witness ==
    /\ sinceSetWorld
    /\ made = 0
    /\ mutex.writer = 0
    /\ ~world.nil
    /\ 1 \in DOMAIN world.Objects
    /\ world.Objects[1].Position = Vec(5 * Unit, 0)
    /\ lastUpdate = now
    /\ now > 1

\* C14: a failure of one integration pass does not end the worker: no worker
\* goroutine is ever terminated by a pass that aborted.
C14_WorkerSurvivesFailure ==
    \A g \in Gens : worker[g].pc # "panicked"

\* C15: the critical section of Stop on a Running engine ends with the engine
\* Stopped and holding no World.
C15_StopClearsWorld ==
    [][\A c \in Writers :
          (pc[c] = "Stop" /\ pc'[c] # "Stop" /\ running)
          => /\ ~running'
             /\ world'.nil]_vars

\* the step is one integration pass with elapsed = rtt over the stored World
PassOver(rtt) ==
    \E c \in Writers : ~world.nil /\ rtt > 0 /\ SetWorldBody(c, world, rtt)

\* size.x/2 <= position.x <= boundary.x - size.x/2 and
\* 0 <= position.y <= boundary.y - size.y
InBounds(obj, w) ==
    /\ obj.Size.X \div 2 <= obj.Position.X
    /\ obj.Position.X <= w.Boundary.X - (obj.Size.X \div 2)
    /\ 0 <= obj.Position.Y
    /\ obj.Position.Y <= w.Boundary.Y - obj.Size.Y

\* the object fits into the World
FitsWorld(obj, w) == obj.Size.X <= w.Boundary.X /\ obj.Size.Y <= w.Boundary.Y

\* C16 as stated: after a pass every Creature and Item lies inside the World,
\* whatever its size.
C16_InBoundsAnySize ==
    [][\A rtt \in PhysElapsed :
          PassOver(rtt) =>
             \A id \in DOMAIN world.Objects :
                world.Objects[id].Type \in {"Creature", "Item"}
                => InBounds(world'.Objects[id], world)]_vars

\* C16: after a pass every Creature and Item that is not larger than the
\* World lies inside it: size.x/2 <= position.x <= boundary.x - size.x/2 and
\* 0 <= position.y <= boundary.y - size.y.
C16_InBounds ==
    [][\A rtt \in PhysElapsed :
          PassOver(rtt) =>
             \A id \in DOMAIN world.Objects :
                (world.Objects[id].Type \in {"Creature", "Item"} /\ FitsWorld(world.Objects[id], world))
                => InBounds(world'.Objects[id], world)]_vars

\* a pass has clamped a Creature or Item to the right wall and to the ceiling
C16_Witness ==
    /\ ~world.nil
    /\ \E id \in DOMAIN world.Objects :
          /\ world.Objects[id].Type \in {"Creature", "Item"}
          /\ world.Objects[id].Size = Vec(2 * Unit, 2 * Unit)
          /\ world.Objects[id].Position = Vec(9 * Unit, 8 * Unit)

\* the object after gravity, impulses, extrapolation and clamping
AfterClamp(obj, w, elapsed) ==
    ClampToWorld(_extrapolatePosition(_applyImpulses(_applyGravity(obj, w.Gravity), elapsed),
                                      elapsed), w)

\* C17: a Creature or Item that after extrapolation and clamping has
\* |position.y| < 0.01 and velocity.y < 0 leaves the pass with velocity.y = 0
\* and position.y = 0.
C17_FloorStop ==
    [][\A rtt \in PhysElapsed :
          PassOver(rtt) =>
             \A id \in DOMAIN world.Objects :
                (/\ world.Objects[id].Type \in {"Creature", "Item"}
                 /\ Abs(AfterClamp(world.Objects[id], world, rtt).Position.Y) < negligibleFloat
                 /\ AfterClamp(world.Objects[id], world, rtt).Velocity.Y < 0)
                => /\ world'.Objects[id].Velocity.Y = 0
                   /\ world'.Objects[id].Position.Y = 0]_vars

\* C18: a pass never takes a Projectile from position.y >= 0 to position.y < 0.
C18_ProjectileAboveFloor ==
    [][\A rtt \in PhysElapsed :
          PassOver(rtt) =>
             \A id \in DOMAIN world.Objects :
                (world.Objects[id].Type = "Projectile" /\ world.Objects[id].Position.Y >= 0)
                => world'.Objects[id].Position.Y >= 0]_vars

\* C19: after a pass an Effect is at its old position plus its new velocity
\* times elapsed on both axes, and a Projectile is at its old position.x plus
\* its new velocity.x times elapsed.
C19_NoClamp ==
    [][\A rtt \in PhysElapsed :
          PassOver(rtt) =>
             \A id \in DOMAIN world.Objects :
                /\ world.Objects[id].Type = "Effect"
                   => world'.Objects[id].Position =
                         Vec(world.Objects[id].Position.X + Mul(world'.Objects[id].Velocity.X, rtt),
                             world.Objects[id].Position.Y + Mul(world'.Objects[id].Velocity.Y, rtt))
                /\ world.Objects[id].Type = "Projectile"
                   => world'.Objects[id].Position.X =
                         world.Objects[id].Position.X + Mul(world'.Objects[id].Velocity.X, rtt)]_vars

\* a pass has taken an Effect beyond the right wall and below the floor, or a
\* Projectile beyond the right wall
C19_Witness ==
    /\ ~world.nil
    /\ \E id \in DOMAIN world.Objects :
          /\ world.Objects[id].Type = "Effect"
          /\ world.Objects[id].Position.X > world.Boundary.X
          /\ world.Objects[id].Position.Y < 0

\* C20: a pass leaves every Terrain, Structure and Other object as it was:
\* position, velocity, impulse chain and every other field.
C20_StaticUnchanged ==
    [][\A rtt \in PhysElapsed :
          PassOver(rtt) =>
             \A id \in DOMAIN world.Objects :
                world.Objects[id].Type \in {"Terrain", "Structure", "Other"}
                => world'.Objects[id] = world.Objects[id]]_vars

\* a pass has moved the Effect of a World beyond the right wall, and the
\* Terrain beside it still has its velocity and its impulse
C20_Witness ==
    /\ ~world.nil
    /\ DOMAIN world.Objects = {1, 2}
    /\ world.Objects[1].Type = "Terrain"
    /\ world.Objects[1].Velocity = Vec(Unit, Unit)
    /\ world.Objects[1].Impulses # <<>>
    /\ world.Objects[2].Position.X > world.Boundary.X

\* what the impulses of a chain add to velocity.y in a pass with this elapsed
RECURSIVE ImpulseSumY(_, _)
ImpulseSumY(chain, elapsed) ==
    IF chain = <<>> THEN 0
    ELSE Mul(Head(chain).Direction.Y, elapsed) + ImpulseSumY(Tail(chain), elapsed)

\* velocity.y of obj after gravity and impulses
FallVelocityY(obj, w, elapsed) ==
    obj.Velocity.Y - Mul(w.Gravity, obj.GravityFactor) + ImpulseSumY(obj.Impulses, elapsed)

\* C21: a pass with elapsed > 0 changes velocity.y of a Creature, Item,
\* Projectile or Effect by -gravity * gravity_factor (nothing when the factor
\* is 0) plus what its impulses add, whatever elapsed is, and the position
\* moves by that velocity; only the floor stop may replace the result by 0.
\* For gravity 9.8 and a Creature at {50,90} with factor 1, one pass with
\* elapsed 1 gives velocity.y = -9.8 and position.y = 80.2 <= 90.
C21_Gravity ==
    [][\A rtt \in PhysElapsed :
          PassOver(rtt) =>
             \A id \in DOMAIN world.Objects :
                world.Objects[id].Type \in MovingTypes
                => LET old == world.Objects[id]
                       new == world'.Objects[id]
                       vy == FallVelocityY(old, world, rtt)
                   IN /\ \/ new.Velocity.Y = vy
                         \/ /\ old.Type # "Effect"
                            /\ vy < 0
                            /\ new.Velocity.Y = 0
                            /\ new.Position.Y = 0
                      /\ old.Type = "Effect" => new.Position.Y = old.Position.Y + Mul(vy, rtt)
                      /\ (world \in GravityWorlds /\ rtt = Unit)
                         => /\ new.Velocity.Y = -((98 * Unit) \div 10)
                            /\ new.Position.Y = 90 * Unit - (98 * Unit) \div 10
                            /\ new.Position.Y <= 90 * Unit]_vars

\* the Creature of the example after its first pass with elapsed 1
C21_Witness ==
    /\ ~world.nil
    /\ world.Gravity = (98 * Unit) \div 10
    /\ 1 \in DOMAIN world.Objects
    /\ world.Objects[1].Velocity.Y = -((98 * Unit) \div 10)
    /\ world.Objects[1].Position.Y = 90 * Unit - (98 * Unit) \div 10

\* the nodes of a chain after their decay over elapsed
Decayed(chain, elapsed) ==
    [i \in 1..Len(chain) |-> [chain[i] EXCEPT !.Direction = DecayDirection(chain[i], elapsed)]]

StaysLinked(imp) == ~Negligible(imp.Direction)

\* C22: after a pass the chain of a moving object holds exactly the nodes whose
\* decayed direction is not negligible, in their old order: every node that
\* decayed below the threshold on both axes is gone, at the head, in the middle
\* or at the tail, alone or next to other removed nodes, and the chain is never
\* longer than before
C22_NegligibleUnlinked ==
    [][\A rtt \in PhysElapsed :
          PassOver(rtt) =>
             \A id \in DOMAIN world.Objects :
                world.Objects[id].Type \in MovingTypes
                => /\ world'.Objects[id].Impulses
                        = SelectSeq(Decayed(world.Objects[id].Impulses, rtt), StaysLinked)
                   /\ Len(world'.Objects[id].Impulses) <= Len(world.Objects[id].Impulses)]_vars

\* the chain StayHalf, GoInstant, GoInstant, StayConstant after a pass of one
\* second: both middle nodes acted on the velocity and are gone
C22_Witness ==
    /\ ~world.nil
    /\ 1 \in DOMAIN world.Objects
    /\ world.Objects[1].Impulses
          = <<[StayHalf EXCEPT !.Direction = Vec(Unit \div 2, Unit \div 2)], StayConstant>>
    /\ world.Objects[1].Velocity = Vec(7 * Unit, -Unit)


\* C25: AddImpulse(id, direction, damping) on an existing object puts the new
\* impulse at the head of that object's chain and keeps the old chain, in its
\* order, as the tail (one node more); no other object changes and no object
\* appears or disappears
C25_AddImpulseIsHead ==
    [][\A c \in Writers, id \in AddedIds, imp \in AddedImpulses :
          (AddImpulseBody(c, id, imp.Direction, imp.Damping) /\ ~world.nil
              /\ id \in DOMAIN world.Objects)
          => /\ DOMAIN world'.Objects = DOMAIN world.Objects
             /\ Head(world'.Objects[id].Impulses) = imp
             /\ Tail(world'.Objects[id].Impulses) = world.Objects[id].Impulses
             /\ Len(world'.Objects[id].Impulses) = Len(world.Objects[id].Impulses) + 1
             /\ world'.Objects[id] = [world.Objects[id] EXCEPT !.Impulses = world'.Objects[id].Impulses]
             /\ \A other \in DOMAIN world.Objects \ {id} :
                   world'.Objects[other] = world.Objects[other]
             /\ [world' EXCEPT !.Objects = world.Objects] = world]_vars

\* an impulse of AddImpulse at the head of a chain that held other nodes before
C25_Witness ==
    /\ ~world.nil
    /\ 1 \in DOMAIN world.Objects
    /\ Len(world.Objects[1].Impulses) >= 3
    /\ Head(world.Objects[1].Impulses) \in AddedImpulses
    /\ world.Objects[1].Impulses[2] \in ChainNodes
    /\ world.Objects[1].Impulses[2] # world.Objects[1].Impulses[3]
    /\ pc[1] = "idle"


\* a damping in (0.01, 1)
DecayingImpulse(imp) == imp.Damping > negligibleFloat /\ imp.Damping < Unit

\* the direction after a decay over e1 and then over e2, and after one decay
\* over e1 + e2
DecayTwice(imp, e1, e2) ==
    DecayDirection([imp EXCEPT !.Direction = DecayDirection(imp, e1)], e2)
DecayOnce(imp, e1, e2) == DecayDirection(imp, e1 + e2)

\* the impulses linked in the World
LinkedImpulses ==
    IF world.nil THEN {}
    ELSE UNION {SeqRange(world.Objects[id].Impulses) : id \in DOMAIN world.Objects}

\* what the roundings of the products can add up to: one unit for each of the
\* two steps and one unit of the factor for each second of the exponent
RoundingSlack(x, e1, e2) == 2 + (Abs(x) * ((e1 + e2) \div Unit)) \div Unit

Shrunk(old, new) ==
    /\ IF old.X = 0 THEN new.X = 0 ELSE Abs(new.X) < Abs(old.X)
    /\ IF old.Y = 0 THEN new.Y = 0 ELSE Abs(new.Y) < Abs(old.Y)

TenAtNineTenths == [Direction |-> Vec(10 * Unit, 0), Damping |-> (9 * Unit) \div 10]

\* a pass of one second over an impulse with a damping in (0.01, 1) shrinks its
\* direction or removes it, and a node that is still linked is not negligible;
\* for AddImpulse(1, {10,0}, 0.9) the first pass adds 10 to velocity.x and
\* leaves the direction {9,0}
C24_EveryPassShrinks ==
    [][\A c \in Writers :
          (DecayPass(c) /\ world.Objects[1].Impulses # <<>>
              /\ DecayingImpulse(world.Objects[1].Impulses[1]))
          => LET old == world.Objects[1].Impulses[1]
                 new == world'.Objects[1].Impulses
             IN /\ \/ new = <<>> /\ Negligible(DecayDirection(old, Unit))
                   \/ /\ Len(new) = 1
                      /\ new[1].Damping = old.Damping
                      /\ Shrunk(old.Direction, new[1].Direction)
                      /\ ~Negligible(new[1].Direction)
                /\ old = TenAtNineTenths
                   => /\ world'.Objects[1].Velocity.X = world.Objects[1].Velocity.X + 10 * Unit
                      /\ new = <<[TenAtNineTenths EXCEPT !.Direction = Vec(9 * Unit, 0)]>>]_vars

\* an impulse with a damping in (0.01, 1) is gone after finitely many passes
C24_ImpulseGone ==
    (~world.nil /\ world.Objects[1].Impulses # <<>>)
       ~> (~world.nil /\ world.Objects[1].Impulses = <<>>)

\* C24: with a damping in (0.01, 1), every pass of one second shrinks the
\* direction of the impulse and after finitely many passes the impulse is no
\* longer in the chain; AddImpulse(1, {10,0}, 0.9) adds 10 to velocity.x in its
\* first pass, which leaves the direction {9,0}, and the impulse goes in the
\* pass that takes its direction below 0.01
C24_ImpulseWearsOff == C24_EveryPassShrinks /\ C24_ImpulseGone

\* the impulse {10,0} with damping 0.9 is gone and has left its velocity behind
C24_Witness ==
    /\ ~world.nil
    /\ world.Objects[1].Impulses = <<>>
    /\ world.Objects[1].Velocity.X > 90 * Unit
    /\ pc[1] = "idle"


\* every key of the object table is the ID of the object under it
Keyed(w) == w.nil \/ \A id \in DOMAIN w.Objects : w.Objects[id].ID = id

\* C26: in the World of the engine, after CreateWorld, UpsertObject(s),
\* RemoveObject(s), AddImpulse, SetVelocity, SetPosition, SetAnchor and passes,
\* and in every World decode returns, each key of the object table equals the
\* ID of the object stored under it
C26_KeysAreIds ==
    /\ Keyed(world)
    /\ (codec.op = "decode" /\ ~codec.out.panic) => Keyed(codec.out.world)

\* a World of the engine with objects, and a decoded World of a buffer that
\* held the id 1 twice
C26_Witness ==
    /\ ~world.nil
    /\ DOMAIN world.Objects = {1, 2}
    /\ codec.op = "decode"
    /\ ~codec.out.panic
    /\ ~codec.out.world.nil
    /\ DOMAIN codec.out.world.Objects = {0, 1}
    /\ codec.out.world.Objects[1].Type = "Item"

\* C27: decode(encode(w)) = w: ToBytes returns the bytes of every World, and
\* decoding them gives the gravity, the boundary and the objects of that World
C27_RoundTrip ==
    /\ codec.op = "encode" => ~codec.panic
    /\ (codec.op = "decode" /\ ~codec.of.nil)
       => ~codec.out.panic /\ codec.out.world = codec.of

\* C28: decode of malformed or truncated bytes does not panic
C28_DecodeFailureReported ==
    (codec.op = "decode" /\ codec.data \in MalformedBuffers) => ~codec.out.panic

\* C29: decode of no data (a nil slice or a slice of length 0) returns no
\* World, as an engine without a World has it, and does not panic
C29_EmptyIsNoWorld ==
    (codec.op = "decode" /\ (codec.data.nil \/ codec.data.len = 0))
    => ~codec.out.panic /\ codec.out.world = NoWorld

\* the decoder has returned no World for a slice of length 0
C29_Witness ==
    /\ codec.op = "decode"
    /\ ~codec.data.nil
    /\ codec.data.len = 0
    /\ ~codec.out.panic
    /\ codec.out.world = NoWorld

\* C30: CreateWorld(gravity, boundary) leaves a World with that gravity, that
\* boundary and an empty object table, which is what GetWorld returns then,
\* whether the engine had no World or an older one, running or stopped


C30_CreateWorldFresh ==
    [][\A c \in Writers, gravity \in Gravities, boundary \in Boundaries :
          CreateWorldBody(c, gravity, boundary)
          => /\ ~getWorld'.nil
             /\ getWorld'.Gravity = gravity
             /\ getWorld'.Boundary = boundary
             /\ DOMAIN getWorld'.Objects = {}
             /\ running' = running]_vars

\* a World made by CreateWorld while the engine is running, which had a World
\* before it could be started
C30_Witness ==
    /\ running
    /\ ~world.nil
    /\ world.Gravity \in Gravities
    /\ world.Boundary \in Boundaries
    /\ DOMAIN world.Objects = {}
    /\ pc[1] = "idle"

\* the call that is inside its critical section may add an object or replace
\* the World
AddsObjects(c) == pc[c] \in {"UpsertObject", "UpsertObjects", "SetWorld", "CreateWorld"}

\* C31: when RemoveObjects(ids) returns, GetObject finds no id of ids, the
\* objects with other ids are in the table as they were, and ids that were not
\* in the table change nothing; an id GetObject does not find stays not found
\* until an upsert or a call that replaces the World
C31_RemovedStayRemoved ==
    [][/\ \A c \in Writers, ids \in RemovedLists :
             (RemoveObjectsBody(c, ids) /\ ~world.nil)
             => /\ \A id \in SeqRange(ids) : getObject(id)' = <<>>
                /\ \A id \in DOMAIN world.Objects \ SeqRange(ids) :
                      getObject(id)' = <<world.Objects[id]>>
                /\ DOMAIN world'.Objects \subseteq DOMAIN world.Objects
                /\ pc'[c] = "idle"
                /\ UNCHANGED <<world.Gravity, world.Boundary, running, lastUpdate>>
       /\ \A id \in TableIds :
             (getObject(id) = <<>> /\ getObject(id)' # <<>>)
             => \E c \in Writers : AddsObjects(c)]_vars

\* GetObject is called after RemoveObjects([1, 2]) took both objects out of a
\* World of three: object 3 is the only one left, as it was stored
C31_Witness ==
    \E c \in Readers :
       /\ pc[c] = "GetObject"
       /\ ~world.nil
       /\ DOMAIN world.Objects = {3}
       /\ getObject(1) = <<>>
       /\ getObject(2) = <<>>
       /\ getObject(3) = <<[Obj(3, "Item") EXCEPT !.Velocity = Vec(Unit, 0)]>>

\* C32: a pass with elapsed <= 0 changes nothing of the World: the pass of a
\* worker that finds the clock where the last update left it, and SetWorld(w,
\* rtt) with rtt <= 0, which leaves the engine holding w as it was given, with
\* every velocity, position and impulse chain untouched by gravity or impulses
C32_NoTimeNoChange ==
    [][/\ \A g \in Gens : (WorkerPass(g) /\ Elapsed <= 0) => world' = world
       /\ \A c \in Writers, w \in Worlds, rtt \in RttValues :
             (SetWorldBody(c, w, rtt) /\ rtt <= 0) => world' = w]_vars

\* a worker is inside a pass with elapsed = 0 over a World whose Creature has a
\* gravity factor of 1
C32_Witness ==
    \E g \in Gens :
       /\ worker[g].pc = "pass"
       /\ Elapsed = 0
       /\ ~world.nil
       /\ world.Gravity > 0
       /\ \E id \in DOMAIN world.Objects :
             /\ world.Objects[id].Type = "Creature"
             /\ world.Objects[id].GravityFactor = Unit

\* C33: a pass gives the same World whatever the order in which the range
\* over the object table visits the objects: every order leaves each object
\* with the velocity, position and impulse chain the pass has left
C33_OrderIrrelevant ==
    [][\A rtt \in PhysElapsed :
          PassOver(rtt) =>
             \A order \in VisitOrders(world) : world' = updateInOrder(world, rtt, order)]_vars

\* a pass has moved both objects of a World, an Effect and an Item
C33_Witness ==
    /\ ~world.nil
    /\ DOMAIN world.Objects = {1, 2}
    /\ world.Objects[1].Type = "Effect"
    /\ world.Objects[2].Type = "Item"
    /\ world.Objects[1].Position # Vec(5 * Unit, 5 * Unit)
    /\ world.Objects[2].Position # Vec(5 * Unit, 5 * Unit)

\* what the impulses of a chain add to velocity.x in a pass with this elapsed
RECURSIVE ImpulseSumX(_, _)
ImpulseSumX(chain, elapsed) ==
    IF chain = <<>> THEN 0
    ELSE Mul(Head(chain).Direction.X, elapsed) + ImpulseSumX(Tail(chain), elapsed)

\* the decay of a node by case: constant force, instant impulse, damping^e
DecayByCase(imp, elapsed) ==
    CASE imp.Damping = Unit -> imp
      [] imp.Damping # Unit /\ imp.Damping <= negligibleFloat ->
            [imp EXCEPT !.Direction = Vec(0, 0)]
      [] OTHER ->
            [imp EXCEPT !.Direction = Vec(Mul(imp.Direction.X, Pow(imp.Damping, elapsed)),
                                          Mul(imp.Direction.Y, Pow(imp.Damping, elapsed)))]

\* a constant force with a component of absolute value >= 0.01
ConstantForce(imp) ==
    /\ imp.Damping = Unit
    /\ (Abs(imp.Direction.X) >= negligibleFloat \/ Abs(imp.Direction.Y) >= negligibleFloat)

\* a node with damping <= 0.01
InstantImpulse(imp) == imp.Damping <= negligibleFloat

\* C34: in a pass every node of the chain, also a node the pass removes, adds
\* its direction as it was before the pass times elapsed to the velocity, and
\* then decays: a damping of 1 leaves the direction, so that a constant force
\* with a component of at least 0.01 stays in the chain; a damping <= 0.01
\* zeroes the direction, so that an instant impulse is gone after the one pass
\* it has contributed to; any other damping multiplies both components by
\* damping^elapsed
C34_AddThenDecay ==
    [][\A rtt \in PhysElapsed :
          PassOver(rtt) =>
             \A id \in DOMAIN world.Objects :
                world.Objects[id].Type \in MovingTypes
                => /\ world'.Objects[id].Velocity.X =
                         world.Objects[id].Velocity.X + ImpulseSumX(world.Objects[id].Impulses, rtt)
                   /\ world.Objects[id].Type = "Effect"
                      => world'.Objects[id].Velocity.Y = FallVelocityY(world.Objects[id], world, rtt)
                   /\ world'.Objects[id].Impulses =
                         SelectSeq([i \in DOMAIN world.Objects[id].Impulses |->
                                       DecayByCase(world.Objects[id].Impulses[i], rtt)],
                                   StaysLinked)
                   /\ \A i \in DOMAIN world.Objects[id].Impulses :
                         ConstantForce(world.Objects[id].Impulses[i])
                         => \E j \in DOMAIN world'.Objects[id].Impulses :
                               world'.Objects[id].Impulses[j] = world.Objects[id].Impulses[i]
                   /\ \A j \in DOMAIN world'.Objects[id].Impulses :
                         ~InstantImpulse(world'.Objects[id].Impulses[j])]_vars

\* a pass over the chain of four nodes has removed the two instant impulses
\* between a decaying node and a constant force, and the velocity holds what
\* all four have added in one second
C34_Witness ==
    /\ ~world.nil
    /\ 1 \in DOMAIN world.Objects
    /\ world.Objects[1].Impulses =
          <<[StayHalf EXCEPT !.Direction = Vec(Unit \div 2, Unit \div 2)], StayConstant>>
    /\ world.Objects[1].Velocity = Vec(7 * Unit, -Unit)

\* the dampings of a chain, head first
DampingsOf(chain) == [i \in DOMAIN chain |-> chain[i].Damping]

\* a is b with some elements left out
RECURSIVE IsSubseq(_, _)
IsSubseq(a, b) ==
    IF a = <<>> THEN TRUE
    ELSE IF b = <<>> THEN FALSE
    ELSE IF Head(a) = Head(b) THEN IsSubseq(Tail(a), Tail(b))
    ELSE IsSubseq(a, Tail(b))

\* C35: a pass leaves the object table with the ids it had, every object with
\* its id, type, client flag, size, anchor and gravity factor, and the World
\* with its gravity and boundary; the nodes left in a chain have their old
\* dampings in their old order
C35_PassFrame ==
    [][\A rtt \in PhysElapsed :
          PassOver(rtt) =>
             /\ ~world'.nil
             /\ world'.Gravity = world.Gravity
             /\ world'.Boundary = world.Boundary
             /\ DOMAIN world'.Objects = DOMAIN world.Objects
             /\ \A id \in DOMAIN world.Objects :
                   /\ world'.Objects[id].ID = world.Objects[id].ID
                   /\ world'.Objects[id].Type = world.Objects[id].Type
                   /\ world'.Objects[id].Client = world.Objects[id].Client
                   /\ world'.Objects[id].Size = world.Objects[id].Size
                   /\ world'.Objects[id].Anchor = world.Objects[id].Anchor
                   /\ world'.Objects[id].GravityFactor = world.Objects[id].GravityFactor
                   /\ IsSubseq(DampingsOf(world'.Objects[id].Impulses),
                               DampingsOf(world.Objects[id].Impulses))]_vars

\* a pass has left a decayed node in front of a constant force, and the Item
\* beside them in the table
C35_Witness ==
    /\ ~world.nil
    /\ DOMAIN world.Objects = {1, 2}
    /\ world.Objects[2].Type = "Item"
    /\ world.Objects[1].Position # Vec(5 * Unit, 5 * Unit)
    /\ Len(world.Objects[1].Impulses) = 2
    /\ world.Objects[1].Impulses[1].Damping = Unit \div 2
    /\ world.Objects[1].Impulses[1].Direction # StayHalf.Direction
    /\ world.Objects[1].Impulses[2] = StayConstant

\* C36: the codec keeps the ids: the bytes of a World with objects decode to a
\* World with the same ids, as many objects as were encoded
C36_IdsPreserved ==
    /\ (codec.op = "encode" /\ DOMAIN codec.of.Objects # {}) => ~codec.panic
    /\ (codec.op = "decode" /\ ~codec.of.nil /\ ~codec.out.panic)
       => /\ ~codec.out.world.nil
          /\ DOMAIN codec.out.world.Objects = DOMAIN codec.of.Objects


\* a goroutine that was started has returned
TaskEnded(t) == t.pc \in {"none", "done"}
\* a Stop has acted on a Running engine and no Run has followed it
StoppedAfterRun == ~running /\ made > 0
\* no timer and no worker is left, and every ticker that was made is stopped
AllTasksEnded ==
    /\ \A g \in Gens : TaskEnded(timer[g]) /\ TaskEnded(worker[g])
    /\ \A g \in Gens : tickerPeriod[g] > 0 => tickerStopped[g]

\* C37: after Stop on a Running engine, unless a Run follows, the timer and the
\* worker goroutines end and the ticker is stopped, under fair scheduling; and
\* a pass that holds the lock runs to its end (it assigns lastUpdate and
\* returns to the select), Stop waiting for the lock meanwhile.
C37_StopEndsTasks ==
    /\ StoppedAfterRun ~> (running \/ AllTasksEnded)
    /\ \A g \in Gens : (worker[g].pc = "pass") ~> (worker[g].pc = "select" /\ mutex.writer # WorkerId(g))
    /\ [](\A c \in Writers, g \in Gens : pc[c] = "Stop" => worker[g].pc # "pass")

\* the engine is stopped, and the timer and the worker of the Run have returned
C37_Witness ==
    /\ StoppedAfterRun
    /\ AllTasksEnded
    /\ \E g \in Gens : timer[g].pc = "done" /\ worker[g].pc = "done" /\ tickerStopped[g]


\* the life cycle of SpecLife under the fair scheduling of SpecFair
SpecFairLife == InitLife /\ [][NextLife]_vars /\ Fairness

\* the values of the clock
ClockValues == 1 .. 1 + MaxClock
\* the timer has posted a marker that no worker has received, on an engine
\* that is Running
MarkerPending == running /\ updateSignal # 0 /\ sigLen[updateSignal] > 0

\* C38: on an engine that stays Running, a marker the timer has posted is
\* followed by an integration pass, under fair scheduling of the goroutines
\* and of the lock: a worker gets the lock after the posting, and the pass it
\* runs sets lastUpdate to the time it reads then, which is not before the
\* posting.
C38_MarkerConsumed ==
    /\ \A t \in ClockValues :
          (MarkerPending /\ now = t)
             ~> (~running \/ \E g \in Gens : worker[g].pc = "pass" /\ now >= t)
    /\ [][\A g \in Gens : WorkerPass(g) /\ worker'[g].pc = "select" => lastUpdate' = now]_vars

\* a worker holds the lock for a pass on a Running engine after a marker was posted
C38_Witness ==
    /\ running
    /\ \E g \in Gens : worker[g].pc = "pass" /\ lastUpdate < now


\* how many times the address was passed to free
TimesFreed(h, a) == Cardinality({i \in DOMAIN h.freed : h.freed[i] = a})

\* C39: a Free...Ptr call on a pointer the binding returned passes to free
\* every block that was allocated to build the value, each once, and no
\* address that malloc did not return (or that free has taken already).
C39_FreedExactlyOnce ==
    heap.op \in {"FreeWorldPtr", "FreeObjectPtr", "FreeImpulsePtr"}
    => /\ ~heap.undefined
       /\ \A a \in heap.owed : TimesFreed(heap, a) = 1
       /\ \A i \in DOMAIN heap.freed : heap.freed[i] \in heap.owed


\* the step is taken by the thread that holds the write lock
HolderSteps ==
    \/ \E c \in Callers : mutex.writer = c /\ pc'[c] # pc[c]
    \/ \E g \in Gens : mutex.writer = WorkerId(g) /\ worker'[g] # worker[g]

\* C40: in the earlier engine every write to the shared state is made by the
\* thread that holds the write lock (the World and its objects, lastUpdate and
\* the ticker); AddImpulse, when it has the lock, modifies an object that is
\* in the World; and a Stop that finds the engine Running finds the ticker of
\* the Run that made it so.
C40_WritesUnderLock ==
    [][/\ (world' # world \/ lastUpdate' # lastUpdate \/ updateTicker' # updateTicker)
          => HolderSteps
       /\ \A c \in Callers : (pc[c] = "AddImpulse" /\ pc'[c] = "idle") => held[c] # 0
       /\ \A c \in Callers : (pc[c] = "Stop" /\ pc'[c] # "Stop" /\ running)
                                => updateTicker = stopChannel]_vars

====
